---- MODULE Spec2Model ----
(***************************************************************************)
(* Model of the exchange adapter of freqtrade/exchange/exchange.py:        *)
(*   - the OHLCV cache and refresh engine (refresh_latest_ohlcv),          *)
(*   - the event-loop lock,                                                *)
(*   - time- and id-based trade pagination and the trade cache,            *)
(*   - the dry-run order simulator,                                        *)
(*   - live order requests and the rate cache.                             *)
(* Each part has its own specification over its own variables; the         *)
(* variables of the other parts stay at their initial values.              *)
(***************************************************************************)
EXTENDS Integers, Sequences, FiniteSets, TLC

VARIABLES
    \* ---- OHLCV refresh engine
    now,                      \* clock: open time of the candle in progress
    klines,                   \* self._klines[(pair, timeframe, candle_type)]
    pairs_last_refresh_time,  \* self._pairs_last_refresh_time[key], 0 = unset
    pc,                       \* per caller thread: position in refresh_latest_ohlcv
    job,                      \* per thread: the call's arguments and built coroutine
    ticks,                    \* per thread: result of the coroutine
    old,                      \* per thread: table read by _process_ohlcv_df
    ret,                      \* table the last finished call returned for the key
    merged,                   \* ghost: the last store into klines merged an old table
    seen,                     \* ghost, per thread: what its last call met and did
    \* ---- event loop
    loop_lock,                \* holder of self._loop_lock, "none" when free
    in_loop,                  \* threads inside self.loop.run_until_complete
    loop_closed,              \* self.loop.is_closed()
    lpc,                      \* per thread: position in its loop-using operation
    lop,                      \* per thread: the operation it runs
    \* ---- trade pagination and trade cache
    tpc,                      \* position in refresh_latest_trades / pagination
    tcfg,                     \* the venue's pagination dialect and overlap flag
    tcall,                    \* the arguments and locals of the pull under way
    cursor,                   \* since (time dialect) or from_id (id dialect), 0 = None
    trades,                   \* the list accumulated by the pagination loop
    pages,                    \* ghost: every page the pull received, in order
    cancelled,                \* ghost: the pull was cancelled during a fetch
    trades_cache,             \* self._trades[key]
    sidecar,                  \* the "<pair>-cached" file
    \* ---- dry-run simulator
    has_l2_order_book,        \* exchange_has("fetchL2OrderBook")
    book,                     \* the venue's L2 order book
    dry_clock,                \* dt_now() as create_dry_run_order reads it
    dry_run_open_orders,      \* self._dry_run_open_orders
    created,                  \* ghost: each order as create_dry_run_order stored it
    crossed,                  \* ghost: ids whose limit the book crossed at a check
    dry_err,                  \* the error the last dry-run operation raised, or "none"
    \* ---- live order requests
    ppc,                      \* position in the operation under way
    pop,                      \* the operation and its arguments
    pcount,                   \* retries left of the retrier of the _lev_prep request
    pouter,                   \* retries left of the retrier of the operation
    requests,                 \* ghost: the requests the call sent to the venue
    perr,                     \* the adapter error the last attempt raised, "none" if none
    \* ---- rate cache
    rate_cache,               \* self._entry_rate_cache[pair], 0 = no unexpired entry
    cache_lock,               \* holder of self._cache_lock, "none" when free
    ticker,                   \* the venue's ticker of the pair
    rpc,                      \* per thread: position in get_rate / get_rates
    rcall,                    \* per thread: arguments and locals of its call
    unguarded,                \* ghost: the cache was read or written without the lock
    \* ---- order queries
    answers,                  \* ghost: the venue's answer to each of `requests`
    \* ---- records of single calls
    sl,                       \* create_stoploss: the last call and its outcome
    canceled,                 \* ghost: the ids cancel_order has returned
    fillp,                    \* get_dry_market_fill_price: the last call and result
    levq,                     \* get_max_leverage: the last call and its outcome
    \* ---- fetch_orders
    fo,                       \* the call: position, arguments, locals, result
    fo_clock,                 \* dt_now(), in minutes
    \* ---- configuration checks
    vsc,                      \* validate_required_startup_candles: call and outcome
    \* ---- market reload
    mk,                       \* _markets, _last_markets_refresh and the running call
    mk_clock,                 \* dt_ts()
    mk_venue,                 \* the version of the venue's market table
    \* ---- stake limits
    stk,                      \* get_min/get_max_pair_stake_amount: the last calls
    \* ---- liquidation price
    liq,                      \* get_liquidation_price: the last call and its outcome
    \* ---- price side
    psd,                      \* get_rate with refresh: the last call, its side and rate
    \* ---- expiring candle cache
    owc,                      \* _expiring_candle_cache and the last refresh_ohlcv_with_cache
    owc_clock,                \* time, in seconds
    \* ---- time-based trade pagination on a fixed venue
    tp                        \* _async_get_trade_history_time: the venue and the loop

ohlcvVars ==
    <<now, klines, pairs_last_refresh_time, pc, job, ticks, old, ret, merged, seen>>
loopVars == <<loop_lock, in_loop, loop_closed, lpc, lop>>
tradeVars ==
    <<tpc, tcfg, tcall, cursor, trades, pages, cancelled, trades_cache, sidecar>>
dryVars ==
    <<has_l2_order_book, book, dry_clock, dry_run_open_orders, created, crossed,
      dry_err>>
placeVars == <<ppc, pop, pcount, pouter, requests, perr>>
rateVars == <<rate_cache, cache_lock, ticker, rpc, rcall, unguarded>>
ordVars == <<answers>>
seenVars == <<sl, canceled, fillp, levq>>
fordVars == <<fo, fo_clock>>
marketVars == <<mk, mk_clock, mk_venue>>
owcVars == <<owc, owc_clock>>
pureVars == <<stk, liq, psd, owcVars, tp>>
probeVars == <<vsc, marketVars, pureVars>>
lateVars == <<rateVars, ordVars, seenVars, fordVars, probeVars>>
vars == <<ohlcvVars, loopVars, tradeVars, dryVars, placeVars, lateVars>>

Threads == {"t1", "t2"}

Min(a, b) == IF a < b THEN a ELSE b
Max(a, b) == IF a > b THEN a ELSE b

(***************************************************************************)
(* Sequences                                                               *)
(***************************************************************************)
Tail_n(s, n) == IF Len(s) <= n THEN s ELSE SubSeq(s, Len(s) - n + 1, Len(s))
Head_n(s, n) == IF Len(s) <= n THEN s ELSE SubSeq(s, 1, n)
DropLast(s) == IF s = <<>> THEN s ELSE SubSeq(s, 1, Len(s) - 1)
Range(s) == {s[i] : i \in 1..Len(s)}

(***************************************************************************)
(* OHLCV: bounds and configuration                                         *)
(***************************************************************************)
\* ohlcv_candle_limit of the venue (500 by default), scaled down
CandleLimit == 8
\* startup_candle_count of the configuration
StartupCount == 8
\* the clock at construction, and how far it advances
T0 == 18
MaxTicks == 2
\* the "- 5" of the time-jump check in _build_coroutine
GraceCandles == 5
\* The clock and every ts_ms count timeframes: timeframe_to_msecs is one unit.

ohlcv_require_since == FALSE

\* validate_required_startup_candles: ceil((startup + 1) / candle_limit)
required_candle_call_count ==
    LET candle_count == StartupCount + 1
    IN  (candle_count \div CandleLimit)
            + (IF candle_count % CandleLimit = 0 THEN 0 ELSE 1)

NoTable == [present |-> FALSE, rows |-> <<>>]
Table(rows) == [present |-> TRUE, rows |-> rows]
NoJob == [cache |-> FALSE, drop |-> FALSE, since |-> 0, hist |-> FALSE]
\* what a call of refresh_latest_ohlcv met (the cached table, the last-refresh
\* timestamp, the clock, its arguments) and did (served the cache or built a
\* job, evicted, the REST calls of the job and the rows they gave, its failure),
\* the close the venue reported for the candle in progress, and whether the
\* call repeats the thread's previous call: same arguments, clock, venue data
NothingSeen ==
    [did |-> "none", cache |-> FALSE, drop |-> FALSE, since_ms |-> 0, at |-> 0,
     table |-> NoTable, plr |-> 0, evicted |-> FALSE, calls |-> 0,
     pull |-> <<>>, failed |-> FALSE, close |-> 0, again |-> FALSE]

\* the call s came to its end with a result for the key
Completed(s) ==
    \/ s.did = "cached"
    \/ s.did = "job" /\ s.calls >= 1 /\ ~s.failed

\* a call with these arguments at this clock repeats the call s
Repeats(s, cache, drop, since_ms, clock) ==
    /\ Completed(s) /\ s.cache /\ cache
    /\ s.drop = drop /\ s.since_ms = since_ms /\ s.at = clock

(***************************************************************************)
(* The venue: one candle per timeframe from time 1 on, except the          *)
(* timeframes without a trade.  A closed candle never changes; the candle  *)
(* in progress (ts = clock) has the close of the moment.                   *)
(***************************************************************************)
VenueHasCandle(t) == t >= 1 /\ t % 14 # 3
VenueClose(t) == (t % 2) + 1

RECURSIVE VenueCandles(_, _, _, _)
VenueCandles(from, to, n, pclose) ==
    IF from > to THEN <<>>
    ELSE (IF VenueHasCandle(from)
            THEN <<[ts |-> from,
                    c |-> IF from = n THEN pclose ELSE VenueClose(from),
                    vol |-> 1]>>
            ELSE <<>>)
         \o VenueCandles(from + 1, to, n, pclose)

\* fetch_ohlcv(since, limit): the first `limit` candles from since on, or the
\* latest `limit` candles when since is None (0)
fetch_ohlcv(since, limit, n, pclose) ==
    IF since = 0
    THEN Tail_n(VenueCandles(1, n, n, pclose), limit)
    ELSE Head_n(VenueCandles(since, n, n, pclose), limit)

\* sorted(data, key=lambda x: x[0]): stable insertion sort on ts
RECURSIVE InsertByTs(_, _)
InsertByTs(s, r) ==
    IF s = <<>> THEN <<r>>
    ELSE IF s[Len(s)].ts <= r.ts THEN Append(s, r)
    ELSE Append(InsertByTs(DropLast(s), r), s[Len(s)])

RECURSIVE SortByTs(_)
SortByTs(s) ==
    IF s = <<>> THEN s ELSE InsertByTs(SortByTs(DropLast(s)), s[Len(s)])

\* _async_get_candle_history: one REST call, sorted when the venue answers
\* newest first
async_get_candle_history(since, n, pclose) ==
    LET data == fetch_ohlcv(since, CandleLimit, n, pclose)
    IN  IF data # <<>> /\ data[1].ts > data[Len(data)].ts THEN SortByTs(data) ELSE data

\* _async_get_historic_ohlcv: one call per one_call window from since_ms up to
\* the wall clock (inside the candle in progress), extended and sorted
RECURSIVE HistoricCalls(_, _, _)
HistoricCalls(since, n, pclose) ==
    IF since > n THEN <<>>
    ELSE async_get_candle_history(since, n, pclose)
            \o HistoricCalls(since + CandleLimit, n, pclose)

async_get_historic_ohlcv(since, n, pclose) == SortByTs(HistoricCalls(since, n, pclose))

\* the number of input_coroutines of _async_get_historic_ohlcv:
\* len(range(since_ms, dt_ts(), one_call))
RECURSIVE historic_call_count(_, _)
historic_call_count(since, n) ==
    IF since > n THEN 0 ELSE 1 + historic_call_count(since + CandleLimit, n)

(***************************************************************************)
(* freqtrade.data.converter: de-duplicate on ts keeping the later row,     *)
(* sort ascending, fill the missing candles from the previous close with   *)
(* volume 0, drop the last (partial) row.                                  *)
(***************************************************************************)
TsOf(rows) == {rows[i].ts : i \in 1..Len(rows)}

LastRow(rows, t) ==
    rows[CHOOSE i \in 1..Len(rows) :
            rows[i].ts = t /\ \A j \in (i + 1)..Len(rows) : rows[j].ts # t]

RECURSIVE CleanFrom(_, _, _, _, _)
CleanFrom(rows, t, hi, prevc, fill) ==
    IF t > hi THEN <<>>
    ELSE IF t \in TsOf(rows)
         THEN <<LastRow(rows, t)>> \o CleanFrom(rows, t + 1, hi, LastRow(rows, t).c, fill)
         ELSE (IF fill THEN <<[ts |-> t, c |-> prevc, vol |-> 0]>> ELSE <<>>)
              \o CleanFrom(rows, t + 1, hi, prevc, fill)

clean_ohlcv_dataframe(rows, fill_missing, drop_incomplete) ==
    IF rows = <<>> THEN <<>>
    ELSE LET lo == CHOOSE t \in TsOf(rows) : \A u \in TsOf(rows) : t <= u
             hi == CHOOSE t \in TsOf(rows) : \A u \in TsOf(rows) : t >= u
             all == CleanFrom(rows, lo, hi, 0, fill_missing)
         IN  IF drop_incomplete THEN DropLast(all) ELSE all

ohlcv_to_dataframe(tk, fill_missing, drop_incomplete) ==
    clean_ohlcv_dataframe(tk, fill_missing, drop_incomplete)

(***************************************************************************)
(* refresh_latest_ohlcv, one key                                           *)
(***************************************************************************)
\* the refresh test against the last-refresh timestamp plus one interval
\* itself, the open time of the candle in progress included
now_is_time_to_refresh_le == pairs_last_refresh_time + 1 <= now

\* _now_is_time_to_refresh
now_is_time_to_refresh == pairs_last_refresh_time + 1 < now

\* the since_ms a caller passes: None (0), the oldest candle, a recent one,
\* the candle in progress
SinceChoices == {0, 1, now - 3, now}

\* _build_coroutine: the cache is usable when one call reaches back to it
cache_usable == now - (CandleLimit - GraceCandles) < pairs_last_refresh_time

build_coroutine(cache, drop, since_ms) ==
    LET evict == cache /\ klines.present /\ ~cache_usable
        not_all_data ==
            IF cache /\ klines.present /\ cache_usable
            THEN FALSE
            ELSE cache /\ required_candle_call_count > 1
        since ==
            IF since_ms = 0 /\ (ohlcv_require_since \/ not_all_data)
            THEN (now + 1) - CandleLimit * required_candle_call_count
            ELSE since_ms
    IN  [cache |-> cache, drop |-> drop, since |-> since, hist |-> since # 0,
         evict |-> evict]

\* the store with the merge reduced to the concatenation
ConcatOnly(oldt, df) == Table(IF oldt.present THEN oldt.rows \o df ELSE df)

\* the store with a merge that does not fill the missing candles
process_ohlcv_df_unfilled(oldt, df) ==
    IF oldt.present
    THEN Table(Tail_n(clean_ohlcv_dataframe(oldt.rows \o df, FALSE, FALSE),
                      CandleLimit + StartupCount))
    ELSE Table(df)

\* _process_ohlcv_df, the table it stores for a key, given the table it read
\* and the frame of the pull
process_ohlcv_df(oldt, df) ==
    IF oldt.present
    THEN Table(Tail_n(clean_ohlcv_dataframe(oldt.rows \o df, TRUE, FALSE),
                      CandleLimit + StartupCount))
    ELSE Table(df)

\* refresh_latest_ohlcv up to the lock: _build_ohlcv_dl_jobs, which serves the
\* key from the cache or builds its coroutine (evicting on a time jump)
Build(t, Caches, Drops, Sinces) ==
    /\ pc[t] = "idle"
    /\ \E cache \in Caches, drop \in Drops, since_ms \in Sinces :
        IF klines.present /\ cache /\ ~now_is_time_to_refresh
        THEN /\ ret' = klines
             /\ seen' = [seen EXCEPT ![t] =
                    [NothingSeen EXCEPT !.did = "cached", !.cache = cache,
                        !.drop = drop, !.since_ms = since_ms, !.at = now,
                        !.table = klines, !.plr = pairs_last_refresh_time,
                        !.close = seen[t].close,
                        !.again = Repeats(seen[t], cache, drop, since_ms, now)]]
             /\ UNCHANGED <<klines, pc, job>>
        ELSE LET j == build_coroutine(cache, drop, since_ms)
             IN  /\ job' = [job EXCEPT ![t] =
                        [cache |-> j.cache, drop |-> j.drop, since |-> j.since,
                         hist |-> j.hist]]
                 /\ klines' = IF j.evict THEN NoTable ELSE klines
                 /\ pc' = [pc EXCEPT ![t] = "run"]
                 /\ ret' = NoTable
                 /\ seen' = [seen EXCEPT ![t] =
                        [NothingSeen EXCEPT !.did = "job", !.cache = cache,
                            !.drop = drop, !.since_ms = since_ms, !.at = now,
                            !.table = klines, !.plr = pairs_last_refresh_time,
                            !.evicted = j.evict, !.close = seen[t].close,
                            !.again = Repeats(seen[t], cache, drop, since_ms, now)]]
    /\ UNCHANGED <<now, pairs_last_refresh_time, ticks, old, merged>>
    /\ UNCHANGED <<loopVars, tradeVars, dryVars, placeVars, lateVars>>

\* with self._loop_lock: run_until_complete(gather(...)); a job that raised is
\* logged and skipped
Run(t, Closes, Oks) ==
    /\ pc[t] = "run"
    /\ \E pclose \in Closes, ok \in Oks :
        IF ok
        THEN /\ ticks' = [ticks EXCEPT ![t] =
                    IF job[t].hist
                    THEN async_get_historic_ohlcv(job[t].since, now, pclose)
                    ELSE async_get_candle_history(0, now, pclose)]
             /\ pc' = [pc EXCEPT ![t] = "process"]
             /\ seen' = [seen EXCEPT
                    ![t].calls =
                        IF job[t].hist THEN historic_call_count(job[t].since, now)
                        ELSE 1,
                    ![t].pull = ticks'[t],
                    ![t].close = pclose,
                    ![t].again = /\ seen[t].again
                                 /\ seen[t].at = now
                                 /\ seen[t].close \in {0, pclose}]
             /\ UNCHANGED job
        ELSE /\ pc' = [pc EXCEPT ![t] = "idle"]
             /\ job' = [job EXCEPT ![t] = NoJob]
             /\ seen' = [seen EXCEPT ![t].failed = TRUE]
             /\ UNCHANGED ticks
    /\ UNCHANGED <<now, klines, pairs_last_refresh_time, old, ret, merged>>
    /\ UNCHANGED <<loopVars, tradeVars, dryVars, placeVars, lateVars>>

\* _process_ohlcv_df up to the read of the cached table
ProcessRead(t) ==
    /\ pc[t] = "process"
    /\ LET tk == ticks[t]
           idx == IF job[t].drop /\ Len(tk) > 1 THEN Len(tk) - 1 ELSE Len(tk)
       IN  /\ pairs_last_refresh_time' =
                IF tk # <<>> /\ job[t].cache THEN tk[idx].ts
                ELSE pairs_last_refresh_time
           /\ IF job[t].cache
              THEN /\ old' = [old EXCEPT ![t] = klines]
                   /\ pc' = [pc EXCEPT ![t] = "store"]
                   /\ UNCHANGED <<ret, ticks, job>>
              ELSE /\ ret' = Table(ohlcv_to_dataframe(tk, TRUE, job[t].drop))
                   /\ pc' = [pc EXCEPT ![t] = "idle"]
                   /\ ticks' = [ticks EXCEPT ![t] = <<>>]
                   /\ job' = [job EXCEPT ![t] = NoJob]
                   /\ UNCHANGED old
    /\ UNCHANGED <<now, klines, merged, seen>>
    /\ UNCHANGED <<loopVars, tradeVars, dryVars, placeVars, lateVars>>

\* _process_ohlcv_df from the read on: the store into self._klines
ProcessStore(t) ==
    /\ pc[t] = "store"
    /\ klines' = process_ohlcv_df(old[t], ohlcv_to_dataframe(ticks[t], TRUE, job[t].drop))
    /\ merged' = old[t].present
    /\ ret' = klines'
    /\ pc' = [pc EXCEPT ![t] = "idle"]
    /\ ticks' = [ticks EXCEPT ![t] = <<>>]
    /\ old' = [old EXCEPT ![t] = NoTable]
    /\ job' = [job EXCEPT ![t] = NoJob]
    /\ UNCHANGED <<now, pairs_last_refresh_time, seen>>
    /\ UNCHANGED <<loopVars, tradeVars, dryVars, placeVars, lateVars>>

\* the next candle opens
Tick ==
    /\ now < T0 + MaxTicks
    /\ now' = now + 1
    /\ UNCHANGED <<klines, pairs_last_refresh_time, pc, job, ticks, old, ret, merged,
                   seen>>
    /\ UNCHANGED <<loopVars, tradeVars, dryVars, placeVars, lateVars>>

(***************************************************************************)
(* Public trades.  A trade is [ts, id]; the venue holds trades 1..NumTrades *)
(* in id order, some sharing a timestamp.                                  *)
(***************************************************************************)
NumTrades == 5
\* trades_limit: the most trades one fetch_trades call returns
PageLimit == 3
\* the most fetch_trades calls of one pull the model follows
MaxFetches == 4

TradeTs(i) == i - (i \div 3)
Trade(i) == [ts |-> TradeTs(i), id |-> i]
MaxTs == TradeTs(NumTrades) + 1

NoCall == [mode |-> "none", until |-> 0, since |-> 0, stored |-> <<>>,
           first_candle |-> 0, cache |-> FALSE]

RECURSIVE TradeSeq(_, _)
TradeSeq(a, b) == IF a > b THEN <<>> ELSE <<Trade(a)>> \o TradeSeq(a + 1, b)

\* the pages fetch_trades may answer from trade `first` on: up to PageLimit
\* consecutive trades, or none
PagesFrom(first) ==
    {TradeSeq(first, first + k - 1) :
        k \in 0..Min(PageLimit, Max(0, NumTrades - first + 1))}

\* fetch_trades(pair, since=since): trades with ts >= since
FirstAtOrAfter(since) ==
    IF \E i \in 1..NumTrades : TradeTs(i) >= since
    THEN CHOOSE i \in 1..NumTrades :
            TradeTs(i) >= since /\ \A j \in 1..(i - 1) : TradeTs(j) < since
    ELSE NumTrades + 1

fetch_trades_since(since) == PagesFrom(FirstAtOrAfter(since))

\* fetch_trades(pair, params={from_id arg: from_id}): from that trade on, the
\* trade itself included on a venue whose pages overlap; the latest trades
\* when the id is None
fetch_trades_from_id(from_id, overlap) ==
    IF from_id = 0 THEN PagesFrom(Max(1, NumTrades - PageLimit + 1))
    ELSE PagesFrom(IF overlap THEN from_id ELSE from_id + 1)

\* _get_trade_pagination_next_value
get_trade_pagination_next_value(t, pagination) ==
    IF t = <<>> THEN 0
    ELSE IF pagination = "id" THEN t[Len(t)].id ELSE t[Len(t)].ts

\* x = slice(None, -1) if has_overlap else slice(None)
SliceX(t, has_overlap) == IF has_overlap THEN DropLast(t) ELSE t
LastOf(t) == IF t = <<>> THEN <<>> ELSE <<t[Len(t)]>>

\* One iteration of the loop of _async_get_trade_history_id on page t:
\* the trades it appends, whether it breaks, and the next from_id
id_loop_step(t, from_id, until, has_overlap) ==
    LET from_id_next == get_trade_pagination_next_value(t, "id")
        stop == t = <<>> \/ from_id = from_id_next \/ t[Len(t)].ts > until
    IN  [add |-> IF t = <<>> THEN <<>>
                 ELSE SliceX(t, has_overlap)
                        \o (IF stop /\ has_overlap THEN LastOf(t) ELSE <<>>),
         stop |-> stop,
         cursor |-> IF stop THEN from_id ELSE from_id_next]

\* the loop iteration with the until test widened to >=
time_loop_step_ge(t, since, until) ==
    LET since_next == get_trade_pagination_next_value(t, "time")
        exhausted == t # <<>> /\ since = since_next /\ Len(t) = 1
    IN  [add |-> IF t = <<>> \/ exhausted THEN <<>> ELSE t,
         stop |-> t = <<>> \/ exhausted \/ (until # 0 /\ since_next >= until),
         cursor |-> IF t = <<>> \/ exhausted THEN since ELSE since_next]

\* One iteration of the loop of _async_get_trade_history_time on page t
time_loop_step(t, since, until) ==
    LET since_next == get_trade_pagination_next_value(t, "time")
        exhausted == t # <<>> /\ since = since_next /\ Len(t) = 1
    IN  [add |-> IF t = <<>> \/ exhausted THEN <<>> ELSE t,
         stop |-> t = <<>> \/ exhausted \/ (until # 0 /\ since_next > until),
         cursor |-> IF t = <<>> \/ exhausted THEN since ELSE since_next]

\* trades_df_remove_duplicates: the first row of every trade id is kept
RECURSIVE trades_df_remove_duplicates(_)
trades_df_remove_duplicates(rows) ==
    IF rows = <<>> THEN <<>>
    ELSE LET init == trades_df_remove_duplicates(DropLast(rows))
             r == rows[Len(rows)]
         IN  IF \E i \in 1..Len(init) : init[i].id = r.id THEN init ELSE Append(init, r)

\* trades_list_to_df: the rows of the list, one frame row each
trades_list_to_df(tk) == tk

SelectSeq2(rows, first_required) ==
    SelectSeq(rows, LAMBDA r : first_required < r.ts)

\* _process_trades_df: the frame it returns, given the cached table
process_trades_df(oldt, tk, first_required) ==
    IF oldt.present
    THEN SelectSeq2(trades_df_remove_duplicates(oldt.rows \o trades_list_to_df(tk)),
                    first_required)
    ELSE trades_list_to_df(tk)

\* the arguments the model draws
Untils == 2..MaxTs
FirstCandles == {1, 2}

\* start of _async_get_trade_history with the dialect of the venue
StartPull(call, from_id) ==
    /\ tcall' = call
    /\ trades' = <<>>
    /\ pages' = <<>>
    /\ cancelled' = FALSE
    /\ IF tcfg.pagination = "time"
       THEN tpc' = "loop" /\ cursor' = call.since
       ELSE IF from_id = 0
            THEN tpc' = "startup" /\ cursor' = 0
            ELSE tpc' = "loop" /\ cursor' = from_id

\* get_historic_trades(pair, since, until, from_id)
HistoricCall ==
    /\ tpc = "idle"
    /\ \E since \in FirstCandles, until \in Untils, from_id \in {0, 1, 3} :
          StartPull([mode |-> "historic", until |-> until, since |-> since,
                     stored |-> <<>>, first_candle |-> 0, cache |-> FALSE], from_id)
    /\ UNCHANGED <<tcfg, trades_cache, sidecar>>
    /\ UNCHANGED <<ohlcvVars, loopVars, dryVars, placeVars, lateVars>>

\* refresh_latest_trades for the key: _build_trades_dl_jobs up to the pull
RefreshCall ==
    /\ tpc = "idle"
    /\ \E cache \in {TRUE}, first_candle_ms \in FirstCandles, until \in {MaxTs},
          time_to_refresh \in BOOLEAN :
        LET is_in_cache == trades_cache.present
            needed == ~is_in_cache \/ ~cache \/ time_to_refresh
            use_stored ==
                /\ ~is_in_cache
                /\ sidecar # <<>>
                /\ sidecar[Len(sidecar)].ts > first_candle_ms
                /\ sidecar[1].ts <= first_candle_ms
            stored == IF use_stored THEN sidecar ELSE <<>>
            from_id ==
                IF is_in_cache THEN trades_cache.rows[Len(trades_cache.rows)].id
                ELSE IF use_stored THEN sidecar[Len(sidecar)].id ELSE 0
            since_ms == IF use_stored THEN sidecar[Len(sidecar)].ts ELSE first_candle_ms
        IN  /\ needed
            \* .iloc[-1] of an empty cached table raises: the job ends
            /\ is_in_cache => trades_cache.rows # <<>>
            /\ StartPull([mode |-> "refresh", until |-> until, since |-> since_ms,
                          stored |-> stored, first_candle |-> first_candle_ms,
                          cache |-> cache], from_id)
    /\ UNCHANGED <<tcfg, trades_cache, sidecar>>
    /\ UNCHANGED <<ohlcvVars, loopVars, dryVars, placeVars, lateVars>>

\* _async_get_trade_history_id: the time-based first call that finds an id
StartupPage ==
    /\ tpc = "startup"
    /\ \E t \in fetch_trades_since(tcall.since) :
        /\ trades' = trades \o SliceX(t, tcfg.overlap)
        /\ cursor' = get_trade_pagination_next_value(t, "id")
        /\ pages' = Append(pages, t)
    /\ tpc' = "loop"
    /\ UNCHANGED <<tcfg, tcall, cancelled, trades_cache, sidecar>>
    /\ UNCHANGED <<ohlcvVars, loopVars, dryVars, placeVars, lateVars>>

\* the task is cancelled while the first call is awaited: outside the try
StartupCancel ==
    /\ tpc = "startup"
    /\ tcall.mode = "historic"
    /\ cancelled' = TRUE
    /\ tpc' = "raised"
    /\ UNCHANGED <<tcfg, tcall, cursor, trades, pages, trades_cache, sidecar>>
    /\ UNCHANGED <<ohlcvVars, loopVars, dryVars, placeVars, lateVars>>

\* one page of the while loop of either dialect
LoopPage ==
    /\ tpc = "loop"
    /\ Len(pages) < MaxFetches
    /\ \E t \in (IF tcfg.pagination = "time" THEN fetch_trades_since(cursor)
                 ELSE fetch_trades_from_id(cursor, tcfg.overlap)) :
        LET step == IF tcfg.pagination = "time"
                    THEN time_loop_step(t, cursor, tcall.until)
                    ELSE id_loop_step(t, cursor, tcall.until, tcfg.overlap)
        IN  /\ trades' = trades \o step.add
            /\ cursor' = step.cursor
            /\ tpc' = IF step.stop THEN "done" ELSE "loop"
            /\ pages' = Append(pages, t)
    /\ UNCHANGED <<tcfg, tcall, cancelled, trades_cache, sidecar>>
    /\ UNCHANGED <<ohlcvVars, loopVars, dryVars, placeVars, lateVars>>

\* except asyncio.CancelledError: break
LoopCancel ==
    /\ tpc = "loop"
    /\ tcall.mode = "historic"
    /\ cancelled' = TRUE
    /\ tpc' = "done"
    /\ UNCHANGED <<tcfg, tcall, cursor, trades, pages, trades_cache, sidecar>>
    /\ UNCHANGED <<ohlcvVars, loopVars, dryVars, placeVars, lateVars>>

\* a fetch fails for good (retries used up): the pull raises
FetchError ==
    /\ tpc \in {"startup", "loop"}
    /\ tpc' = "raised"
    /\ UNCHANGED <<tcfg, tcall, cursor, trades, pages, cancelled, trades_cache, sidecar>>
    /\ UNCHANGED <<ohlcvVars, loopVars, dryVars, placeVars, lateVars>>

\* get_historic_trades returns (or raises) to its caller
HistoricReturn ==
    /\ tpc \in {"done", "raised"}
    /\ tcall.mode = "historic"
    /\ tpc' = "idle"
    /\ tcall' = NoCall
    /\ trades' = <<>>
    /\ pages' = <<>>
    /\ cursor' = 0
    /\ cancelled' = FALSE
    /\ UNCHANGED <<tcfg, trades_cache, sidecar>>
    /\ UNCHANGED <<ohlcvVars, loopVars, dryVars, placeVars, lateVars>>

\* _build_trades_dl_jobs after the pull: merge, store, write the sidecar
RefreshProcess ==
    /\ tpc \in {"done", "raised"}
    /\ tcall.mode = "refresh"
    /\ IF tpc = "done" /\ trades # <<>>
       THEN LET all_stored_ticks_list == tcall.stored \o trades
                trades_df == process_trades_df(
                    IF tcall.cache THEN trades_cache ELSE NoTable,
                    all_stored_ticks_list, tcall.first_candle)
            IN  /\ trades_cache' = IF tcall.cache THEN Table(trades_df) ELSE trades_cache
                /\ sidecar' = trades_df
       ELSE UNCHANGED <<trades_cache, sidecar>>
    /\ tpc' = "idle"
    /\ tcall' = NoCall
    /\ trades' = <<>>
    /\ pages' = <<>>
    /\ cursor' = 0
    /\ cancelled' = FALSE
    /\ UNCHANGED tcfg
    /\ UNCHANGED <<ohlcvVars, loopVars, dryVars, placeVars, lateVars>>

(***************************************************************************)
(* Dry-run order simulator                                                 *)
(***************************************************************************)
\* Prices are in ticks of the quote currency; every price of the model is a
\* multiple of 60, so that the 1% and 5% factors and the division by the
\* order amount are exact.
Pairs == {"BTC/USDT"}
Sides == {"buy", "sell"}
Rates == {6000, 6060, 6120}
Amounts == {2, 3}
\* at most this many orders are placed in one run
MaxOrders == 1
\* the market's amount precision (TICK_SIZE mode)
AmountStep == 2
\* the market's price precision
PriceStep == 10
\* the venue's fees, in 1/10000
TakerFee == 10
MakerFee == 5
NoFee == [rate |-> 0, cost |-> 0, none |-> TRUE]

\* order books the venue may show: <<price, volume>> levels, best first
BookOf(asks, bids) == [asks |-> asks, bids |-> bids]
QuietBook == BookOf(<<<<6120, 1>>, <<6180, 4>>>>, <<<<5880, 1>>, <<5820, 4>>>>)
Books ==
    { QuietBook,
      BookOf(<<<<6060, 1>>, <<6120, 4>>>>, <<<<6000, 1>>, <<5940, 4>>>>),
      BookOf(<<<<6000, 1>>, <<6060, 1>>>>, <<<<5940, 1>>, <<5880, 1>>>>),
      BookOf(<<<<5940, 1>>, <<6000, 4>>>>, <<<<5880, 4>>>>),
      BookOf(<<<<6180, 4>>>>, <<<<6120, 1>>, <<6060, 4>>>>),
      BookOf(<<>>, <<>>) }

\* fetch_l2_order_book(pair, limit): the current book
fetch_l2_order_book == book

\* amount_to_precision: truncation to the amount step; the contract size of
\* a spot pair is 1, so _amount_to_contracts and back change nothing
amount_to_precision(amount) == amount - (amount % AmountStep)

\* price_to_precision (TICK_SIZE mode, ROUND): the nearest multiple of the
\* price step
price_to_precision(price) == ((2 * price + PriceStep) \div (2 * PriceStep)) * PriceStep

\* get_fee(pair, taker_or_maker=...)
get_fee(taker_or_maker) == IF taker_or_maker = "taker" THEN TakerFee ELSE MakerFee

\* add_dry_order_fee
add_dry_order_fee(dry_order, taker_or_maker) ==
    [dry_order EXCEPT !.fee = [rate |-> get_fee(taker_or_maker),
                               cost |-> dry_order.cost * get_fee(taker_or_maker),
                               none |-> FALSE]]

\* the crossing test with the comparisons made strict
dry_is_price_crossed_strict(side, limit, orderbook, offset) ==
    IF ~has_l2_order_book THEN TRUE
    ELSE IF side = "buy"
         THEN /\ orderbook.asks # <<>>
              /\ limit * (100 - offset) > orderbook.asks[1][1] * 100
         ELSE /\ orderbook.bids # <<>>
              /\ limit * (100 + offset) < orderbook.bids[1][1] * 100

\* _dry_is_price_crossed; offset is in percent, an empty book side is the
\* IndexError branch
dry_is_price_crossed(side, limit, orderbook, offset) ==
    IF ~has_l2_order_book THEN TRUE
    ELSE IF side = "buy"
         THEN /\ orderbook.asks # <<>>
              /\ limit * (100 - offset) >= orderbook.asks[1][1] * 100
         ELSE /\ orderbook.bids # <<>>
              /\ limit * (100 + offset) <= orderbook.bids[1][1] * 100

\* the for loop of get_dry_market_fill_price, for-else included
RECURSIVE book_walk(_, _, _, _)
book_walk(entries, remaining_amount, filled_value, book_entry_price) ==
    IF entries = <<>>
    THEN filled_value + remaining_amount * book_entry_price
    ELSE LET book_entry == Head(entries)
         IN  IF remaining_amount > 0
             THEN IF remaining_amount < book_entry[2]
                  THEN filled_value + remaining_amount * book_entry[1]
                  ELSE book_walk(Tail(entries), remaining_amount - book_entry[2],
                                 filled_value + book_entry[2] * book_entry[1],
                                 book_entry[1])
             ELSE filled_value

\* get_dry_market_fill_price
get_dry_market_fill_price(side, amount, rate, orderbook) ==
    IF has_l2_order_book
    THEN LET max_slippage_val ==
                 IF side = "buy" THEN (rate * 105) \div 100 ELSE (rate * 95) \div 100
             filled_value ==
                 book_walk(IF side = "buy" THEN orderbook.asks ELSE orderbook.bids,
                           amount, 0, 0)
             forecast_avg_filled_price == Max(filled_value, 0) \div amount
         IN  price_to_precision(
                 IF side = "buy"
                 THEN Min(forecast_avg_filled_price, max_slippage_val)
                 ELSE Max(forecast_avg_filled_price, max_slippage_val))
    ELSE rate

\* the fill check without the test of the stoploss sentinel
check_dry_limit_order_filled_any(order, immediate, orderbook) ==
    IF /\ order.status # "closed"
       /\ order.type = "limit"
       /\ dry_is_price_crossed(order.side, order.price, orderbook, 0)
    THEN add_dry_order_fee(
             [order EXCEPT !.status = "closed", !.filled = order.amount,
                           !.remaining = 0],
             IF immediate THEN "taker" ELSE "maker")
    ELSE order

\* the fill check charging the taker fee whenever it fills
check_dry_limit_order_filled_taker(order, immediate, orderbook) ==
    IF /\ order.status # "closed"
       /\ order.type = "limit"
       /\ ~order.ft_order_type
       /\ dry_is_price_crossed(order.side, order.price, orderbook, 0)
    THEN add_dry_order_fee(
             [order EXCEPT !.status = "closed", !.filled = order.amount,
                           !.remaining = 0],
             "taker")
    ELSE order

\* check_dry_limit_order_filled; orderbook is the book passed in or fetched
\* the fill that leaves `remaining` as it was
check_dry_limit_order_filled_keep_remaining(order, immediate, orderbook) ==
    IF /\ order.status # "closed"
       /\ order.type = "limit"
       /\ ~order.ft_order_type
       /\ dry_is_price_crossed(order.side, order.price, orderbook, 0)
    THEN add_dry_order_fee(
             [order EXCEPT !.status = "closed", !.filled = order.amount],
             IF immediate THEN "taker" ELSE "maker")
    ELSE order

check_dry_limit_order_filled(order, immediate, orderbook) ==
    IF /\ order.status # "closed"
       /\ order.type = "limit"
       /\ ~order.ft_order_type
       /\ dry_is_price_crossed(order.side, order.price, orderbook, 0)
    THEN add_dry_order_fee(
             [order EXCEPT !.status = "closed", !.filled = order.amount,
                           !.remaining = 0],
             IF immediate THEN "taker" ELSE "maker")
    ELSE order

\* order_id = f"dry_run_{side}_{pair}_{now.timestamp()}"
order_id(side, pair, stamp) == <<"dry_run", side, pair, stamp>>

\* create_dry_run_order: the order it stores and returns
create_dry_run_order(pair, ordertype, side, amount, rate, stop_loss) ==
    LET \* the pair is a spot pair: contract size 1
        amt == amount_to_precision(amount)
        dry_order == [id |-> order_id(side, pair, dry_clock),
                      symbol |-> pair,
                      price |-> rate,
                      average |-> rate,
                      amount |-> amt,
                      cost |-> amt * rate,
                      type |-> ordertype,
                      side |-> side,
                      filled |-> 0,
                      remaining |-> amt,
                      status |-> "open",
                      fee |-> NoFee,
                      ft_order_type |-> stop_loss]
        orderbook == fetch_l2_order_book
        converted ==
            IF /\ ordertype = "limit"
               /\ has_l2_order_book
               /\ dry_is_price_crossed(side, rate, orderbook, 1)
            THEN [dry_order EXCEPT !.type = "market"]
            ELSE dry_order
        filled ==
            IF converted.type = "market" /\ ~converted.ft_order_type
            THEN LET average == get_dry_market_fill_price(side, amount, rate, orderbook)
                 IN  add_dry_order_fee(
                         [converted EXCEPT !.average = average,
                                           !.filled = amt,
                                           !.remaining = 0,
                                           !.status = "closed",
                                           !.cost = amt * average],
                         "taker")
            ELSE converted
    IN  check_dry_limit_order_filled(filled, TRUE, orderbook)

\* the top of the opposite book side crosses the limit with offset 0: best
\* ask <= limit for a buy, best bid >= limit for a sell
TopOfBookCrosses(side, limit) ==
    IF side = "buy"
    THEN book.asks # <<>> /\ book.asks[1][1] <= limit
    ELSE book.bids # <<>> /\ book.bids[1][1] >= limit

Put(m, k, v) == [x \in (DOMAIN m) \cup {k} |-> IF x = k THEN v ELSE m[x]]

\* create_order in dry-run mode
CreateDryRunOrder ==
    /\ Cardinality(DOMAIN dry_run_open_orders) < MaxOrders
    /\ \E pair \in Pairs, ordertype \in {"limit", "market"}, side \in Sides,
          amount \in Amounts, rate \in Rates, stop_loss \in {FALSE} :
         LET dry_order == create_dry_run_order(pair, ordertype, side, amount,
                                               rate, stop_loss)
         IN  /\ dry_run_open_orders' =
                    Put(dry_run_open_orders, dry_order.id, dry_order)
             /\ created' = Put(created, dry_order.id,
                               [order |-> dry_order, ordertype |-> ordertype,
                                stop_loss |-> stop_loss, polls |-> 0])
             /\ crossed' = IF TopOfBookCrosses(side, rate)
                           THEN crossed \cup {dry_order.id} ELSE crossed
    /\ dry_clock' = dry_clock + 1
    /\ dry_err' = "none"
    /\ UNCHANGED <<has_l2_order_book, book>>
    /\ UNCHANGED <<ohlcvVars, loopVars, tradeVars, placeVars, lateVars>>

\* _ft_has["stoploss_order_types"] of the venues: the venue order type of a
\* "limit" and of a "market" stoploss
StoplossOrderTypes ==
    { [limit |-> "stop_loss_limit", market |-> "stop_loss"],
      [limit |-> "limit", market |-> "market"] }

\* stoploss_on_exchange_limit_ratio of the order_types, in percent
LimitRatios == {99, 100, 101}

\* _get_stop_order_type: the venue order type of the user's stoploss type
get_stop_order_type(available, user_order_type) ==
    IF user_order_type = "limit" THEN available.limit ELSE available.market

\* _get_stop_limit_rate: the limit rate, in hundredths of a tick
get_stop_limit_rate(stop_price, limit_price_pct, side) ==
    IF side = "sell"
    THEN stop_price * limit_price_pct
    ELSE stop_price * (200 - limit_price_pct)

\* the test of _get_stop_limit_rate applied to sell orders only
bad_stop_price_sell_only(stop_price, limit_price_pct, side) ==
    /\ side = "sell"
    /\ stop_price * 100 < get_stop_limit_rate(stop_price, limit_price_pct, side)

\* _get_stop_limit_rate: the stop price lies on the wrong side of the limit
\* rate stop_price * ratio (sell) or stop_price * (2 - ratio) (buy)
bad_stop_price(stop_price, limit_price_pct, side) ==
    IF side = "sell"
    THEN stop_price * 100 < get_stop_limit_rate(stop_price, limit_price_pct, side)
    ELSE stop_price * 100 > get_stop_limit_rate(stop_price, limit_price_pct, side)

\* price_to_precision with rounding_mode ROUND_DOWN (buy) or ROUND_UP (sell)
stop_price_to_precision(price, side) ==
    IF side = "buy"
    THEN (price \div PriceStep) * PriceStep
    ELSE ((price + PriceStep - 1) \div PriceStep) * PriceStep

\* create_stoploss in dry-run mode on a venue with stoploss_on_exchange
CreateStoploss ==
    /\ Cardinality(DOMAIN dry_run_open_orders) < MaxOrders
    /\ \E pair \in Pairs, available \in StoplossOrderTypes,
          user_order_type \in {"limit", "market"}, side \in Sides,
          amount \in Amounts, stop_price \in Rates, ratio \in LimitRatios :
         LET ordertype == get_stop_order_type(available, user_order_type)
             stop_price_norm == stop_price_to_precision(stop_price, side)
             dry_order == create_dry_run_order(pair, ordertype, side, amount,
                                               stop_price_norm, TRUE)
         IN  IF user_order_type = "limit" /\ bad_stop_price(stop_price, ratio, side)
             THEN /\ dry_err' = "InvalidOrderException"
                  /\ UNCHANGED <<dry_run_open_orders, created, crossed, dry_clock>>
             ELSE /\ dry_run_open_orders' =
                         Put(dry_run_open_orders, dry_order.id, dry_order)
                  /\ created' = Put(created, dry_order.id,
                                    [order |-> dry_order, ordertype |-> ordertype,
                                     stop_loss |-> TRUE, polls |-> 0])
                  /\ crossed' = IF TopOfBookCrosses(side, stop_price_norm)
                                THEN crossed \cup {dry_order.id} ELSE crossed
                  /\ dry_clock' = dry_clock + 1
                  /\ dry_err' = "none"
    /\ UNCHANGED <<has_l2_order_book, book>>
    /\ UNCHANGED <<ohlcvVars, loopVars, tradeVars, placeVars, lateVars>>

\* fetch_dry_run_order of a known order id
FetchDryRunOrder ==
    /\ \E id \in DOMAIN dry_run_open_orders :
         LET order == dry_run_open_orders[id]
         IN  /\ dry_run_open_orders' =
                    Put(dry_run_open_orders, id,
                        check_dry_limit_order_filled(order, FALSE,
                                                     fetch_l2_order_book))
             /\ created' = [created EXCEPT ![id].polls = 1]
             /\ crossed' = IF TopOfBookCrosses(order.side, order.price)
                           THEN crossed \cup {id} ELSE crossed
    /\ dry_err' = "none"
    /\ UNCHANGED <<has_l2_order_book, book, dry_clock>>
    /\ UNCHANGED <<ohlcvVars, loopVars, tradeVars, placeVars, lateVars>>

\* the market moves
BookChange ==
    /\ book' \in Books \ {book}
    /\ UNCHANGED <<has_l2_order_book, dry_clock, dry_run_open_orders, created, crossed,
                   dry_err>>
    /\ UNCHANGED <<ohlcvVars, loopVars, tradeVars, placeVars, lateVars>>

\* cancel_order in dry-run mode, of a known order id: the order is polled,
\* then marked in place and returned
CancelOrder ==
    /\ \E id \in DOMAIN dry_run_open_orders :
         LET order == check_dry_limit_order_filled(dry_run_open_orders[id], FALSE,
                                                   fetch_l2_order_book)
         IN  /\ dry_run_open_orders' =
                    Put(dry_run_open_orders, id,
                        [order EXCEPT !.status = "canceled", !.filled = 0,
                                      !.remaining = order.amount])
             /\ created' = [created EXCEPT ![id].polls = 1]
             /\ crossed' = IF TopOfBookCrosses(order.side, order.price)
                           THEN crossed \cup {id} ELSE crossed
             /\ canceled' = canceled \cup {id}
    /\ dry_err' = "none"
    /\ UNCHANGED <<has_l2_order_book, book, dry_clock>>
    /\ UNCHANGED <<ohlcvVars, loopVars, tradeVars, placeVars, rateVars, ordVars, sl, fillp, levq, fordVars, probeVars>>

\* the books and rates get_dry_market_fill_price is called with: those of
\* the simulator, the book asks [(10,1),(11,2),(12,5)] in units of 600 ticks,
\* and a book more than 5% away from every rate
LadderBook ==
    BookOf(<<<<6000, 1>>, <<6600, 2>>, <<7200, 5>>>>,
           <<<<5400, 1>>, <<4800, 2>>, <<4200, 5>>>>)
FarBook == BookOf(<<<<6480, 4>>>>, <<<<5640, 4>>>>)
FillBooks == Books \cup {LadderBook, FarBook}
FillRates == Rates \cup {6600}

NoFill ==
    [called |-> FALSE, side |-> "buy", amount |-> 0, rate |-> 0,
     orderbook |-> BookOf(<<>>, <<>>), ret |-> 0]

\* get_dry_market_fill_price(pair, side, amount, rate, orderbook)
FillPriceCall ==
    /\ \E side \in Sides, amount \in Amounts, rate \in FillRates,
          orderbook \in FillBooks :
         fillp' = [called |-> TRUE, side |-> side, amount |-> amount,
                  rate |-> rate, orderbook |-> orderbook,
                  ret |-> get_dry_market_fill_price(side, amount, rate, orderbook)]
    /\ UNCHANGED <<ohlcvVars, loopVars, tradeVars, dryVars, placeVars, rateVars,
                   ordVars, sl, canceled, levq, fordVars, probeVars>>

(***************************************************************************)
(* get_max_leverage. Notionals and stakes are in units of 500 of the quote *)
(* currency; the quotients notional / leverage of the tiers below are      *)
(* whole, and the comparisons with them are made by cross-multiplication.  *)
(***************************************************************************)
Tier(min_notional, max_notional, max_leverage) ==
    [minNotional |-> min_notional, maxNotional |-> max_notional,
     maxLeverage |-> max_leverage]

\* [(0, 50k, lev 50), (50k, 250k, lev 20), (250k, 1M, lev 10)]
ThreeTiers == <<Tier(0, 100, 50), Tier(100, 500, 20), Tier(500, 2000, 10)>>
TwoTiers == <<Tier(0, 200, 25), Tier(200, 1000, 5)>>
\* the pair has no entry in _leverage_tiers
NoTiers == <<>>
PairTiers == {ThreeTiers, TwoTiers, NoTiers}

\* stake_amount is None
NoStake == -1
\* the stakes asked about: every stake up to MaxStake, and stakes at and
\* beyond the top of the last tier
MaxStake == 26
StakeAmounts == (0..MaxStake) \cup {200, 201, 4000} \cup {NoStake}

\* TradingMode
LeverageModes == {"spot", "futures", "margin"}

\* market["limits"]["leverage"]["max"] of margin mode; 0 stands for None
MarketMaxLeverages == {0, 3}

\* the tier test with min_stake taken at the tier's own leverage
in_tier_own_leverage(tier, prior_max_lev, stake_amount) ==
    /\ tier.minNotional <= stake_amount * tier.maxLeverage
    /\ stake_amount * tier.maxLeverage <= tier.maxNotional

\* min_stake <= stake_amount <= max_stake of one tier; prior_max_lev is 0
\* for None
in_tier(tier, prior_max_lev, stake_amount) ==
    /\ tier.minNotional
         <= stake_amount * (IF prior_max_lev # 0 THEN prior_max_lev
                            ELSE tier.maxLeverage)
    /\ stake_amount * tier.maxLeverage <= tier.maxNotional

Returned(v) == [ret |-> v, raised |-> "none"]
Raised(err) == [ret |-> 0, raised |-> err]

\* the for loop of get_max_leverage and the raises behind it
RECURSIVE tier_scan(_, _, _)
tier_scan(pair_tiers, prior_max_lev, stake_amount) ==
    LET tier == Head(pair_tiers)
    IN  IF in_tier(tier, prior_max_lev, stake_amount)
        THEN Returned(tier.maxLeverage)
        ELSE IF Len(pair_tiers) > 1
        THEN tier_scan(Tail(pair_tiers), tier.maxLeverage, stake_amount)
        ELSE IF stake_amount * tier.maxLeverage > tier.maxNotional
        THEN Raised("InvalidOrderException")
        ELSE Raised("OperationalException")

\* get_max_leverage(pair, stake_amount)
get_max_leverage(trading_mode, pair_tiers, market_max, stake_amount) ==
    IF trading_mode = "spot" THEN Returned(1)
    ELSE IF trading_mode = "futures"
    THEN IF stake_amount = NoStake THEN Raised("OperationalException")
         ELSE IF pair_tiers = NoTiers THEN Returned(1)
         ELSE IF stake_amount = 0 THEN Returned(pair_tiers[1].maxLeverage)
         ELSE tier_scan(pair_tiers, 0, stake_amount)
    ELSE IF market_max # 0 THEN Returned(market_max)
    ELSE Returned(1)

NoLeverageCall ==
    [called |-> FALSE, trading_mode |-> "spot", pair_tiers |-> NoTiers,
     stake_amount |-> NoStake, out |-> Returned(0)]

GetMaxLeverage ==
    /\ \E trading_mode \in LeverageModes, pair_tiers \in PairTiers,
          market_max \in MarketMaxLeverages, stake_amount \in StakeAmounts :
         levq' = [called |-> TRUE, trading_mode |-> trading_mode,
                  pair_tiers |-> pair_tiers, stake_amount |-> stake_amount,
                  out |-> get_max_leverage(trading_mode, pair_tiers, market_max,
                                           stake_amount)]
    /\ UNCHANGED <<ohlcvVars, loopVars, tradeVars, dryVars, placeVars, rateVars,
                   ordVars, sl, canceled, fillp, fordVars, probeVars>>

(***************************************************************************)
(* fetch_orders: the window loop over _fetch_orders. Times are in minutes; *)
(* the 10 seconds _fetch_orders subtracts from since are below that        *)
(* resolution.                                                             *)
(***************************************************************************)
\* the window loop runs at most this many times in the model
MaxWindows == 3
\* the clock stops here
MaxClock == 6
\* _ft_has["fetch_orders_limit_minutes"] is None
NoLimit == 0
FetchOrdersLimits == {NoLimit, 1, 2, 3}
Sinces == {1, 2, MaxClock - 1}

\* the venue holds one order per minute, with the minute as its id, and
\* answers a query with the orders of at most `span` minutes from since
\* on; span is the venue's limit, or the whole history when it has none
venue_orders(since, span, pull) ==
    LET hi == IF span = NoLimit THEN fo_clock ELSE Min(since + span, fo_clock)
        F[t \in (since - 1)..hi] ==
            IF t < since THEN <<>>
            ELSE Append(F[t - 1], [id |-> t, pull |-> pull])
    IN  IF hi < since THEN <<>> ELSE F[hi]

\* the orders as pulled, duplicates included
keep_all_orders(orders) == orders

\* list({order["id"]: order for order in orders}.values()): one entry per id
\* at the place of its first occurrence, holding its last occurrence
dedup_by_id(orders) ==
    LET ids == {orders[i].id : i \in 1..Len(orders)}
        first(id) == CHOOSE i \in 1..Len(orders) :
                        orders[i].id = id /\ \A j \in 1..(i - 1) : orders[j].id # id
        last(id) == CHOOSE i \in 1..Len(orders) :
                       orders[i].id = id /\ \A j \in (i + 1)..Len(orders) : orders[j].id # id
        F[i \in 0..Len(orders)] ==
            IF i = 0 THEN <<>>
            ELSE IF first(orders[i].id) = i
                 THEN Append(F[i - 1], orders[last(orders[i].id)])
                 ELSE F[i - 1]
    IN  F[Len(orders)]

NoFetchOrders ==
    [pc |-> "idle", dry_run |-> FALSE, limit |-> NoLimit, since |-> 0,
     since0 |-> 0, orders |-> <<>>, starts |-> <<>>, ret |-> <<>>,
     ret_at |-> 0, raised |-> "none"]

\* fetch_orders(pair, since) is called
FetchOrdersCall ==
    /\ fo.pc = "idle"
    /\ \E dry_run \in BOOLEAN, limit \in FetchOrdersLimits, since \in Sinces :
         fo' = IF dry_run
               THEN [NoFetchOrders EXCEPT !.pc = "returned", !.dry_run = TRUE,
                                          !.limit = limit, !.since = since,
                                          !.since0 = since, !.ret_at = fo_clock]
               ELSE [NoFetchOrders EXCEPT !.pc = IF limit = NoLimit THEN "single"
                                                ELSE "loop",
                                          !.limit = limit, !.since = since,
                                          !.since0 = since]
    /\ UNCHANGED fo_clock
    /\ UNCHANGED <<ohlcvVars, loopVars, tradeVars, dryVars, placeVars, rateVars,
                   ordVars, seenVars, probeVars>>

\* the except clauses of _fetch_orders
map_fetch_orders_error(answer) ==
    IF answer = "DDoSProtection" THEN "DDosProtection"
    ELSE IF answer \in {"OperationFailed", "ExchangeError"} THEN "TemporaryError"
    ELSE "OperationalException"

\* one turn of `while since < dt_now()`: a window is pulled and since
\* advances by limit - 1 minutes, or _fetch_orders raises
FetchOrdersWindow ==
    /\ fo.pc = "loop"
    /\ fo.since < fo_clock
    /\ Len(fo.starts) < MaxWindows
    /\ \E answer \in {"ok", "DDoSProtection", "ExchangeError", "BaseError"} :
         fo' = IF answer = "ok"
               THEN [fo EXCEPT
                       !.orders = fo.orders \o venue_orders(fo.since, fo.limit,
                                                            Len(fo.starts) + 1),
                       !.starts = Append(fo.starts,
                                         [since |-> fo.since, at |-> fo_clock]),
                       !.since = fo.since + (fo.limit - 1)]
               ELSE [fo EXCEPT !.pc = "raised",
                               !.raised = map_fetch_orders_error(answer)]
    /\ UNCHANGED fo_clock
    /\ UNCHANGED <<ohlcvVars, loopVars, tradeVars, dryVars, placeVars, rateVars,
                   ordVars, seenVars, probeVars>>

\* the loop ends: the orders are de-duplicated and returned
FetchOrdersReturn ==
    /\ fo.pc = "loop"
    /\ ~(fo.since < fo_clock)
    /\ fo' = [fo EXCEPT !.pc = "returned", !.ret = dedup_by_id(fo.orders),
                        !.ret_at = fo_clock]
    /\ UNCHANGED fo_clock
    /\ UNCHANGED <<ohlcvVars, loopVars, tradeVars, dryVars, placeVars, rateVars,
                   ordVars, seenVars, probeVars>>

\* no fetch_orders_limit_minutes: one _fetch_orders call, returned as it is
FetchOrdersSingle ==
    /\ fo.pc = "single"
    /\ \E answer \in {"ok", "DDoSProtection", "ExchangeError", "BaseError"} :
         fo' = IF answer = "ok"
               THEN [fo EXCEPT !.pc = "returned",
                               !.ret = venue_orders(fo.since, NoLimit, 1),
                               !.ret_at = fo_clock]
               ELSE [fo EXCEPT !.pc = "raised",
                               !.raised = map_fetch_orders_error(answer)]
    /\ UNCHANGED fo_clock
    /\ UNCHANGED <<ohlcvVars, loopVars, tradeVars, dryVars, placeVars, rateVars,
                   ordVars, seenVars, probeVars>>

\* the caller has the result or the error
FetchOrdersEnd ==
    /\ fo.pc \in {"returned", "raised"}
    /\ fo' = NoFetchOrders
    /\ UNCHANGED fo_clock
    /\ UNCHANGED <<ohlcvVars, loopVars, tradeVars, dryVars, placeVars, rateVars,
                   ordVars, seenVars, probeVars>>

\* a minute passes
FetchOrdersTick ==
    /\ fo_clock < MaxClock
    /\ fo_clock' = fo_clock + 1
    /\ UNCHANGED fo
    /\ UNCHANGED <<ohlcvVars, loopVars, tradeVars, dryVars, placeVars, rateVars,
                   ordVars, seenVars, probeVars>>

(***************************************************************************)
(* validate_required_startup_candles                                       *)
(***************************************************************************)
\* the startup_candles and ohlcv_candle_limit values asked about: every
\* small count, and the counts around the limits of a venue with 500 candles
MaxStartupCandles == 20
StartupCandles == (0..MaxStartupCandles) \cup {499, 500, 600, 2499, 2500, 3000}
OhlcvCandleLimits == {2, 3, 500}

\* the count without the candle that is still open
candle_call_count_closed_only(startup_candles, candle_limit) ==
    (startup_candles \div candle_limit)
        + (IF startup_candles % candle_limit = 0 THEN 0 ELSE 1)

\* int((candle_count / candle_limit) + (0 if candle_count % candle_limit == 0
\* else 1)) with candle_count = startup_candles + 1
candle_call_count(startup_candles, candle_limit) ==
    LET candle_count == startup_candles + 1
    IN  (candle_count \div candle_limit)
            + (IF candle_count % candle_limit = 0 THEN 0 ELSE 1)

NoStartupCheck ==
    [called |-> FALSE, startup_candles |-> 0, candle_limit |-> 0,
     ohlcv_has_history |-> FALSE, count |-> 0, raised |-> "none"]

ValidateRequiredStartupCandles ==
    /\ \E startup_candles \in StartupCandles, candle_limit \in OhlcvCandleLimits,
          ohlcv_has_history \in BOOLEAN :
         LET count == candle_call_count(startup_candles, candle_limit)
         IN  vsc' = [called |-> TRUE, startup_candles |-> startup_candles,
                     candle_limit |-> candle_limit,
                     ohlcv_has_history |-> ohlcv_has_history,
                     count |-> count,
                     raised |-> IF ohlcv_has_history
                                THEN IF count > 5 THEN "ConfigurationError"
                                     ELSE "none"
                                ELSE IF count > 1 THEN "ConfigurationError"
                                     ELSE "none"]
    /\ UNCHANGED <<ohlcvVars, loopVars, tradeVars, dryVars, placeVars, rateVars,
                   ordVars, seenVars, fordVars, marketVars, pureVars>>

(***************************************************************************)
(* reload_markets. A market table is one version of the venue's table; 0   *)
(* is no table. The load under retrier(retries = 3 if force else 0) is one *)
(* step that ends well or raises TemporaryError.                           *)
(***************************************************************************)
\* markets_refresh_interval, in ticks of the clock
RefreshInterval == 2
\* the clock and the venue's table version stop here
MaxMarketClock == 4
MaxMarketVersion == 3

NoMarkets(futures, needs_trading_fees) ==
    [pc |-> "idle", futures |-> futures, needs_trading_fees |-> needs_trading_fees,
     force |-> FALSE, load_leverage_tiers |-> FALSE, is_initial |-> FALSE,
     markets |-> 0, api_async |-> 0, api |-> 0, last_markets_refresh |-> 0,
     trading_fees |-> FALSE, leverage_tiers |-> 0,
     outcome |-> "none", failed_at |-> "none", old_markets |-> 0, old_refresh |-> 0,
     skipped_after_failure |-> FALSE]

\* the early return of reload_markets
reload_not_due(force, last_markets_refresh, clock) ==
    /\ ~force
    /\ last_markets_refresh > 0
    /\ last_markets_refresh + RefreshInterval > clock

\* reload_markets(force, load_leverage_tiers=...) is called
ReloadMarketsCall ==
    /\ mk.pc = "idle"
    /\ \E force \in BOOLEAN, load_leverage_tiers \in BOOLEAN :
         mk' = IF reload_not_due(force, mk.last_markets_refresh, mk_clock)
               THEN [mk EXCEPT !.pc = "done", !.force = force,
                               !.load_leverage_tiers = load_leverage_tiers,
                               !.skipped_after_failure = (mk.outcome = "failed"),
                               !.outcome = "skipped"]
               ELSE [mk EXCEPT !.pc = "load", !.force = force,
                               !.load_leverage_tiers = load_leverage_tiers,
                               !.is_initial = (mk.last_markets_refresh = 0),
                               !.old_markets = mk.markets,
                               !.old_refresh = mk.last_markets_refresh,
                               !.skipped_after_failure = FALSE,
                               !.outcome = "none"]
    /\ UNCHANGED <<mk_clock, mk_venue>>
    /\ UNCHANGED <<ohlcvVars, loopVars, tradeVars, dryVars, placeVars, rateVars,
                   ordVars, seenVars, fordVars, vsc, pureVars>>

\* retrier(self._load_async_markets, retries)(reload=True): the async api
\* has the venue's table, or TemporaryError reaches the except clause
LoadAsyncMarkets ==
    /\ mk.pc = "load"
    /\ \E ok \in BOOLEAN :
         mk' = IF ok THEN [mk EXCEPT !.pc = "assign", !.api_async = mk_venue]
               ELSE [mk EXCEPT !.pc = "done", !.outcome = "failed",
                               !.failed_at = "load"]
    /\ UNCHANGED <<mk_clock, mk_venue>>
    /\ UNCHANGED <<ohlcvVars, loopVars, tradeVars, dryVars, placeVars, rateVars,
                   ordVars, seenVars, fordVars, vsc, pureVars>>

\* self._markets = self._api_async.markets
AssignMarkets ==
    /\ mk.pc = "assign"
    /\ mk' = [mk EXCEPT !.pc = "set_api", !.markets = mk.api_async]
    /\ UNCHANGED <<mk_clock, mk_venue>>
    /\ UNCHANGED <<ohlcvVars, loopVars, tradeVars, dryVars, placeVars, rateVars,
                   ordVars, seenVars, fordVars, vsc, pureVars>>

\* self._api.set_markets(...) and self._last_markets_refresh = dt_ts()
SetApiMarkets ==
    /\ mk.pc = "set_api"
    /\ mk' = [mk EXCEPT !.pc = "fees", !.api = mk.api_async,
                        !.last_markets_refresh = mk_clock]
    /\ UNCHANGED <<mk_clock, mk_venue>>
    /\ UNCHANGED <<ohlcvVars, loopVars, tradeVars, dryVars, placeVars, rateVars,
                   ordVars, seenVars, fordVars, vsc, pureVars>>

\* if is_initial and needs_trading_fees: fetch_trading_fees(), which asks
\* the venue in futures mode only and may then raise TemporaryError into the
\* except clause
LoadTradingFees ==
    /\ mk.pc = "fees"
    /\ IF mk.is_initial /\ mk.needs_trading_fees
       THEN \E ok \in (IF mk.futures THEN BOOLEAN ELSE {TRUE}) :
              mk' = IF ok THEN [mk EXCEPT !.pc = "tiers", !.trading_fees = TRUE]
                    ELSE [mk EXCEPT !.pc = "done", !.outcome = "failed",
                                    !.failed_at = "fees"]
       ELSE mk' = [mk EXCEPT !.pc = "tiers"]
    /\ UNCHANGED <<mk_clock, mk_venue>>
    /\ UNCHANGED <<ohlcvVars, loopVars, tradeVars, dryVars, placeVars, rateVars,
                   ordVars, seenVars, fordVars, vsc, pureVars>>

\* if load_leverage_tiers and futures: fill_leverage_tiers(), which may
\* raise TemporaryError into the except clause
FillLeverageTiers ==
    /\ mk.pc = "tiers"
    /\ IF mk.load_leverage_tiers /\ mk.futures
       THEN \E ok \in BOOLEAN :
              mk' = IF ok THEN [mk EXCEPT !.pc = "done", !.outcome = "ok",
                                         !.leverage_tiers = mk_venue]
                    ELSE [mk EXCEPT !.pc = "done", !.outcome = "failed",
                                    !.failed_at = "tiers"]
       ELSE mk' = [mk EXCEPT !.pc = "done", !.outcome = "ok"]
    /\ UNCHANGED <<mk_clock, mk_venue>>
    /\ UNCHANGED <<ohlcvVars, loopVars, tradeVars, dryVars, placeVars, rateVars,
                   ordVars, seenVars, fordVars, vsc, pureVars>>

\* reload_markets has returned
ReloadMarketsEnd ==
    /\ mk.pc = "done"
    /\ mk' = [mk EXCEPT !.pc = "idle"]
    /\ UNCHANGED <<mk_clock, mk_venue>>
    /\ UNCHANGED <<ohlcvVars, loopVars, tradeVars, dryVars, placeVars, rateVars,
                   ordVars, seenVars, fordVars, vsc, pureVars>>

\* time passes
MarketClockTick ==
    /\ mk_clock < MaxMarketClock
    /\ mk_clock' = mk_clock + 1
    /\ UNCHANGED <<mk, mk_venue>>
    /\ UNCHANGED <<ohlcvVars, loopVars, tradeVars, dryVars, placeVars, rateVars,
                   ordVars, seenVars, fordVars, vsc, pureVars>>

\* the venue lists or delists a market
VenueMarketsChange ==
    /\ mk_venue < MaxMarketVersion
    /\ mk_venue' = mk_venue + 1
    /\ UNCHANGED <<mk, mk_clock>>
    /\ UNCHANGED <<ohlcvVars, loopVars, tradeVars, dryVars, placeVars, rateVars,
                   ordVars, seenVars, fordVars, vsc, pureVars>>

(***************************************************************************)
(* get_min_pair_stake_amount and get_max_pair_stake_amount: the stake      *)
(* limits of a pair.  Limits of the market are whole numbers, stakes are   *)
(* in thousandths; the inputs are chosen so that every division is exact.  *)
(***************************************************************************)
NoneLimit == -1         \* None
Infinite == -2          \* float("inf")
\* DEFAULT_AMOUNT_RESERVE_PERCENT, in percent
AmountReservePercent == 5
\* "it should not be more than 50%"
MaxStoplossReserve == 1500

Limits(cost_min, cost_max, amount_min, amount_max, contract_size) ==
    [cost |-> [min |-> cost_min, max |-> cost_max],
     amount |-> [min |-> amount_min, max |-> amount_max],
     contractSize |-> contract_size]

\* the venue's limits of a pair: each market has min <= max and admits orders;
\* only a futures market has a contractSize
StakeMarkets(trading_mode) ==
    {Limits(cmin, cmax, amin, amax, cs) :
        cmin \in {NoneLimit, 10}, cmax \in {NoneLimit, 1000},
        amin \in {NoneLimit, 1}, amax \in {NoneLimit, 12},
        cs \in (IF trading_mode = "futures" THEN {NoneLimit, 10} ELSE {NoneLimit})}
StakePrices == {1, 20}
\* abs(stoploss), in percent
StakeStoplosses == {0, 30, 100}
\* spot trades have leverage 1 and no leverage tiers
StakeLeverages(trading_mode) == IF trading_mode = "futures" THEN {2, 5} ELSE {1}
StakeTiers(trading_mode) ==
    IF trading_mode = "futures" THEN {ThreeTiers, NoTiers} ELSE {NoTiers}

get_contract_size(trading_mode, market) ==
    IF trading_mode = "futures"
    THEN IF market.contractSize # NoneLimit THEN market.contractSize ELSE 1
    ELSE 1

contracts_to_amount(num_contracts, contract_size) == num_contracts * contract_size

RECURSIVE max_notional_scan(_, _, _)
max_notional_scan(pair_tiers, i, leverage) ==
    IF i = 0 THEN NoneLimit
    ELSE IF leverage <= pair_tiers[i].maxLeverage THEN pair_tiers[i].maxNotional
    ELSE max_notional_scan(pair_tiers, i - 1, leverage)

get_max_notional_from_tiers(trading_mode, pair_tiers, leverage) ==
    IF trading_mode # "futures" THEN NoneLimit
    ELSE IF pair_tiers = NoTiers THEN NoneLimit
    ELSE max_notional_scan(pair_tiers, Len(pair_tiers), leverage)

stoploss_reserve_of(margin_reserve, stoploss) ==
    LET raw == IF stoploss # 100
               THEN (margin_reserve * 100) \div (100 - stoploss)
               ELSE MaxStoplossReserve
    IN Max(Min(raw, MaxStoplossReserve), 1000)

SetMaximum(S) == CHOOSE x \in S : \A y \in S : y <= x
SetMinimum(S) == CHOOSE x \in S : \A y \in S : x <= y

get_stake_amount_considering_leverage(stake_amount, leverage) ==
    stake_amount \div leverage

get_stake_amount_limit(trading_mode, market, pair_tiers, price, stoploss, limit, leverage) ==
    LET isMin == limit = "min"
        margin_reserve == IF isMin THEN 1000 + 10 * AmountReservePercent ELSE 1000
        stoploss_reserve == IF isMin
                            THEN stoploss_reserve_of(margin_reserve, stoploss)
                            ELSE 1000
        max_from_tiers == IF isMin THEN NoneLimit
                          ELSE get_max_notional_from_tiers(trading_mode, pair_tiers,
                                                           leverage)
        contract_size == get_contract_size(trading_mode, market)
        from_tiers == IF max_from_tiers # NoneLimit /\ max_from_tiers # 0
                      THEN {max_from_tiers * 1000} ELSE {}
        from_cost == IF market.cost[limit] # NoneLimit
                     THEN {contracts_to_amount(market.cost[limit], contract_size)
                           * stoploss_reserve}
                     ELSE {}
        from_amount == IF market.amount[limit] # NoneLimit
                       THEN {contracts_to_amount(market.amount[limit], contract_size)
                             * price * margin_reserve}
                       ELSE {}
        stake_limits == from_tiers \cup from_cost \cup from_amount
    IN IF stake_limits = {} THEN (IF isMin THEN NoneLimit ELSE Infinite)
       ELSE get_stake_amount_considering_leverage(
                IF isMin THEN SetMaximum(stake_limits) ELSE SetMinimum(stake_limits),
                IF leverage = 0 THEN 1 ELSE leverage)

get_min_pair_stake_amount(trading_mode, market, pair_tiers, price, stoploss, leverage) ==
    get_stake_amount_limit(trading_mode, market, pair_tiers, price, stoploss, "min",
                           leverage)

get_max_pair_stake_amount(trading_mode, market, pair_tiers, price, leverage) ==
    get_stake_amount_limit(trading_mode, market, pair_tiers, price, 0, "max",
                           leverage)

NoStakeLimits ==
    [called |-> FALSE, trading_mode |-> "spot", market |-> Limits(-1, -1, -1, -1, -1),
     pair_tiers |-> NoTiers, price |-> 0, stoploss |-> 0, leverage |-> 1,
     min |-> NoneLimit, max |-> Infinite]

\* both limits of one pair are asked for with the same price and leverage
GetPairStakeAmounts ==
    /\ \E trading_mode \in {"spot", "futures"} :
       \E market \in StakeMarkets(trading_mode),
          pair_tiers \in StakeTiers(trading_mode), price \in StakePrices,
          stoploss \in StakeStoplosses, leverage \in StakeLeverages(trading_mode) :
          stk' = [called |-> TRUE, trading_mode |-> trading_mode, market |-> market,
                  pair_tiers |-> pair_tiers, price |-> price, stoploss |-> stoploss,
                  leverage |-> leverage,
                  min |-> get_min_pair_stake_amount(trading_mode, market, pair_tiers,
                                                    price, stoploss, leverage),
                  max |-> get_max_pair_stake_amount(trading_mode, market, pair_tiers,
                                                    price, leverage)]
    /\ UNCHANGED <<ohlcvVars, loopVars, tradeVars, dryVars, placeVars, rateVars,
                   ordVars, seenVars, fordVars, vsc, marketVars, liq, psd, owcVars, tp>>

(***************************************************************************)
(* get_liquidation_price: the estimate of dry_run_liquidation_price or the *)
(* venue's position, moved by the liquidation buffer.  Prices are whole    *)
(* numbers chosen so that every division of the inputs below is exact;     *)
(* ratios are in percent.                                                  *)
(***************************************************************************)
LiqOpenRates == {4800, 9600}
LiqWalletBalances == {2400, 4800}
LiqAmounts == {1, 2}
\* mm_ratio + taker_fee_rate, in percent
MmRatioTakers == {0, 20}
\* config liquidation_buffer, in percent (default 0.05)
LiquidationBuffers == {0, 5, 10}
\* fetch_positions(pair): no position, or the first position's liquidationPrice
PositionLiqPrices == {NoneLimit, 0, 4000, 6000}
MarginModes == {"isolated", "cross"}

\* <<outcome, value>> of dry_run_liquidation_price
dry_run_liquidation_price(trading_mode, margin_mode, inverse, open_rate, is_short, amount, wallet_balance, mm_ratio_taker) ==
    IF trading_mode = "futures" /\ margin_mode = "isolated"
    THEN IF inverse THEN <<"raised", NoneLimit>>
         ELSE LET value == wallet_balance \div amount
              IN IF is_short
                 THEN <<"returned",
                        ((open_rate + value) * 100) \div (100 + mm_ratio_taker)>>
                 ELSE <<"returned",
                        ((open_rate - value) * 100) \div (100 - mm_ratio_taker)>>
    ELSE <<"raised", NoneLimit>>

AbsDiff(a, b) == IF a >= b THEN a - b ELSE b - a

\* the buffer added for both directions
liquidation_price_buffer_added(liquidation_price, open_rate, is_short, buffer) ==
    LET buffer_amount == (AbsDiff(open_rate, liquidation_price) * buffer) \div 100
    IN liquidation_price + buffer_amount

\* the buffer moves the price up for a long and down for a short
liquidation_price_buffer(liquidation_price, open_rate, is_short, buffer) ==
    LET buffer_amount == (AbsDiff(open_rate, liquidation_price) * buffer) \div 100
    IN IF is_short THEN liquidation_price - buffer_amount
       ELSE liquidation_price + buffer_amount

NoLiquidationCall ==
    [called |-> FALSE, trading_mode |-> "spot", is_short |-> FALSE, open_rate |-> 0,
     liquidation_buffer |-> 0, liquidation_price |-> NoneLimit, outcome |-> "none",
     returned |-> NoneLimit]

GetLiquidationPrice ==
    /\ \E trading_mode \in LeverageModes, margin_mode \in MarginModes,
          inverse \in BOOLEAN, estimate \in BOOLEAN, is_short \in BOOLEAN,
          open_rate \in LiqOpenRates, amount \in LiqAmounts,
          wallet_balance \in LiqWalletBalances, mm_ratio_taker \in MmRatioTakers,
          buffer \in LiquidationBuffers, position \in PositionLiqPrices :
          LET call == [called |-> TRUE, trading_mode |-> trading_mode,
                       is_short |-> is_short, open_rate |-> open_rate,
                       liquidation_buffer |-> buffer,
                       liquidation_price |-> NoneLimit, outcome |-> "none",
                       returned |-> NoneLimit]
              \* dry_run, or the venue has no fetchPositions
              dry == dry_run_liquidation_price(trading_mode, margin_mode, inverse,
                         open_rate, is_short, amount, wallet_balance, mm_ratio_taker)
              liquidation_price == IF estimate THEN dry[2] ELSE position
          IN liq' =
               IF trading_mode = "spot" THEN call
               ELSE IF trading_mode # "futures"
               THEN [call EXCEPT !.outcome = "raised"]
               ELSE IF estimate /\ dry[1] = "raised"
               THEN [call EXCEPT !.outcome = "raised"]
               ELSE IF liquidation_price # NoneLimit
               THEN [call EXCEPT
                       !.liquidation_price = liquidation_price,
                       !.outcome = "returned",
                       !.returned = Max(liquidation_price_buffer(liquidation_price,
                                            open_rate, is_short, buffer), 0)]
               ELSE call
    /\ UNCHANGED <<ohlcvVars, loopVars, tradeVars, dryVars, placeVars, rateVars,
                   ordVars, seenVars, fordVars, vsc, marketVars, stk, psd, owcVars, tp>>

(***************************************************************************)
(* get_rate with refresh: _get_price_side chooses bid or ask from the      *)
(* intent, the direction and the configured price_side; the rate is read   *)
(* from that side of the ticker or of the order book.                      *)
(***************************************************************************)
EntryExit == {"entry", "exit"}
PriceSides == {"same", "other", "bid", "ask"}
SideTickers ==
    {[bid |-> 99, ask |-> 101, last |-> l] : l \in {0, 98, 100, 102}}
SideOrderBook == [bids |-> <<<<98, 5>>>>, asks |-> <<<<103, 5>>>>]

price_map ==
    (<<"entry", "long", "same">> :> "bid") @@ (<<"entry", "long", "other">> :> "ask")
    @@ (<<"entry", "short", "same">> :> "ask") @@ (<<"entry", "short", "other">> :> "bid")
    @@ (<<"exit", "long", "same">> :> "ask") @@ (<<"exit", "long", "other">> :> "bid")
    @@ (<<"exit", "short", "same">> :> "bid") @@ (<<"exit", "short", "other">> :> "ask")

\* the direction is not looked at: the row of the long position is used
get_price_side_long_only(side, is_short, price_side) ==
    IF price_side \in {"same", "other"}
    THEN price_map[<<side, "long", price_side>>]
    ELSE price_side

get_price_side(side, is_short, price_side) ==
    IF price_side \in {"same", "other"}
    THEN price_map[<<side, IF is_short THEN "short" ELSE "long", price_side>>]
    ELSE price_side

get_rate_from_ticker_side(side, tk, balance, price_side) ==
    LET ticker_rate == tk[price_side]
    IN IF tk.last # 0 /\ ticker_rate # 0
       THEN IF side = "entry" /\ ticker_rate > tk.last
            THEN ticker_rate + balance * (tk.last - ticker_rate)
            ELSE IF side = "exit" /\ ticker_rate < tk.last
            THEN ticker_rate - balance * (ticker_rate - tk.last)
            ELSE ticker_rate
       ELSE ticker_rate

get_rate_from_ob(order_book, price_side, order_book_top) ==
    LET obside == IF price_side = "bid" THEN "bids" ELSE "asks"
    IN order_book[obside][order_book_top][1]

NoPriceSideCall ==
    [called |-> FALSE, side |-> "entry", is_short |-> FALSE, price_side |-> "same",
     use_order_book |-> FALSE, balance |-> 0,
     ticker |-> [bid |-> 0, ask |-> 0, last |-> 0], picked |-> "none", rate |-> 0]

\* get_rate(pair, refresh=True, side, is_short): the cache is not read
GetRateRefresh ==
    /\ \E side \in EntryExit, is_short \in BOOLEAN, price_side \in PriceSides,
          use_order_book \in BOOLEAN, balance \in {0, 1},
          tk \in SideTickers :
          LET picked == get_price_side(side, is_short, price_side)
          IN psd' = [called |-> TRUE, side |-> side, is_short |-> is_short,
                     price_side |-> price_side, use_order_book |-> use_order_book,
                     balance |-> balance, ticker |-> tk, picked |-> picked,
                     rate |-> IF use_order_book
                              THEN get_rate_from_ob(SideOrderBook, picked, 1)
                              ELSE get_rate_from_ticker_side(side, tk, balance,
                                                             picked)]
    /\ UNCHANGED <<ohlcvVars, loopVars, tradeVars, dryVars, placeVars, rateVars,
                   ordVars, seenVars, fordVars, vsc, marketVars, stk, liq, owcVars, tp>>

(***************************************************************************)
(* refresh_ohlcv_with_cache: candles of pairlist keys, kept in a cache     *)
(* that expires with the timeframe.  One timeframe and one since_ms, so    *)
(* one PeriodicCache; a candle table is named by the time of its download. *)
(***************************************************************************)
OwcPairs == {"BTC/USDT", "ETH/USDT", "XRP/USDT"}
\* timeframe_to_seconds(timeframe): the period of the cache
OwcTtl == 2
MaxOwcClock == 4

\* PeriodicCache: the entries stored in an earlier period are gone
live_entries(cache, stored_at, clock) ==
    IF stored_at \div OwcTtl = clock \div OwcTtl THEN cache
    ELSE [k \in {} |-> 0]

Restrict(f, S) == [k \in (DOMAIN f \cap S) |-> f[k]]

\* the table returned: the downloads replace the cache hits
refresh_ohlcv_with_cache(pairs, cache, downloaded) ==
    LET candles == Restrict(cache, pairs)
        pairs_to_download == pairs \ DOMAIN candles
    IN IF pairs_to_download # {} THEN downloaded ELSE candles

NoOwc ==
    [cache |-> [k \in {} |-> 0], stored_at |-> 0, called |-> FALSE, pairs |-> {},
     hits |-> {}, available |-> {}, result |-> [k \in {} |-> 0]]

InitOwc ==
    /\ owc = NoOwc
    /\ owc_clock = 0

\* refresh_ohlcv_with_cache(pairs, since_ms); refresh_latest_ohlcv(cache=False)
\* answers for the keys the venue has data for
RefreshOhlcvWithCache ==
    /\ \E pairs \in (SUBSET OwcPairs) \ {{}} :
         LET cache == live_entries(owc.cache, owc.stored_at, owc_clock)
             hits == DOMAIN cache \cap pairs
             pairs_to_download == pairs \ hits
         IN \E available \in SUBSET pairs_to_download :
              LET downloaded == [k \in available |-> owc_clock + 1]
              IN owc' = [cache |-> downloaded @@ cache,
                         stored_at |-> owc_clock,
                         called |-> TRUE, pairs |-> pairs, hits |-> hits,
                         available |-> available,
                         result |-> refresh_ohlcv_with_cache(pairs, cache,
                                                             downloaded)]
    /\ UNCHANGED owc_clock
    /\ UNCHANGED <<ohlcvVars, loopVars, tradeVars, dryVars, placeVars, rateVars,
                   ordVars, seenVars, fordVars, vsc, marketVars, stk, liq, psd, tp>>

OwcTick ==
    /\ owc_clock < MaxOwcClock
    /\ owc_clock' = owc_clock + 1
    /\ UNCHANGED owc
    /\ UNCHANGED <<ohlcvVars, loopVars, tradeVars, dryVars, placeVars, rateVars,
                   ordVars, seenVars, fordVars, vsc, marketVars, stk, liq, psd, tp>>

(***************************************************************************)
(* _async_get_trade_history_time on a venue that holds a fixed, finite     *)
(* list of trades and answers every fetch_trades(since) with its first     *)
(* PageLimit trades at or after since.                                     *)
(***************************************************************************)
MaxVenueTrades == 4
MaxVenueTs == 3
\* the model records the trades of a pull until it holds more than MaxKept
MaxKept == 12

NonDecreasing(s) == \A i \in 1..(Len(s) - 1) : s[i] <= s[i + 1]

\* the timestamps of the venue's trades, in id order
TimeVenues ==
    {s \in UNION {[1..n -> 1..MaxVenueTs] : n \in 0..MaxVenueTrades} :
        NonDecreasing(s)}

VenueTrade(venue, i) == [ts |-> venue[i], id |-> i]

\* fetch_trades(pair, since=since, limit): the first trades with ts >= since
venue_fetch_trades(venue, since) ==
    LET from == {i \in 1..Len(venue) : venue[i] >= since}
        page == {i \in from : Cardinality({j \in from : j < i}) < PageLimit}
    IN [n \in 1..Cardinality(page) |->
           VenueTrade(venue, CHOOSE i \in page :
                                 Cardinality({j \in page : j < i}) = n - 1)]

NoTimePull ==
    [pc |-> "idle", venue |-> <<>>, since |-> 0, until |-> 0, trades |-> <<>>,
     page |-> <<>>, turn |-> 0]

\* _async_get_trade_history_time(pair, until, since)
TimeHistoryCall ==
    /\ tp.pc = "idle"
    /\ \E venue \in TimeVenues, since \in 1..MaxVenueTs,
          until \in 1..(MaxVenueTs + 1) :
          tp' = [pc |-> "loop", venue |-> venue, since |-> since, until |-> until,
                 trades |-> <<>>, page |-> <<>>, turn |-> 0]
    /\ UNCHANGED <<ohlcvVars, loopVars, tradeVars, dryVars, placeVars, rateVars,
                   ordVars, seenVars, fordVars, vsc, marketVars, stk, liq, psd,
                   owcVars>>

\* one iteration of the while loop; turn is the parity of the iterations
TimeLoopPage ==
    /\ tp.pc = "loop"
    /\ LET t == venue_fetch_trades(tp.venue, tp.since)
           step == time_loop_step(t, tp.since, tp.until)
       IN tp' = [tp EXCEPT !.trades = IF Len(tp.trades) <= MaxKept
                                      THEN tp.trades \o step.add ELSE tp.trades,
                           !.since = step.cursor,
                           !.page = t,
                           !.turn = 1 - tp.turn,
                           !.pc = IF step.stop THEN "done" ELSE "loop"]
    /\ UNCHANGED <<ohlcvVars, loopVars, tradeVars, dryVars, placeVars, rateVars,
                   ordVars, seenVars, fordVars, vsc, marketVars, stk, liq, psd,
                   owcVars>>

\* return (pair, trades)
TimeHistoryReturn ==
    /\ tp.pc = "done"
    /\ tp' = NoTimePull
    /\ UNCHANGED <<ohlcvVars, loopVars, tradeVars, dryVars, placeVars, rateVars,
                   ordVars, seenVars, fordVars, vsc, marketVars, stk, liq, psd,
                   owcVars>>

(***************************************************************************)
(* Live order requests: create_order, create_stoploss and cancel_order     *)
(* against the venue, with _lev_prep before a placement, each under the    *)
(* retrier decorator where the code has one.                               *)
(***************************************************************************)
PlaceOps == {"create_order", "create_stoploss", "cancel_order"}
TradingModes == {"spot", "futures"}
NoOp == [op |-> "none", mode |-> "spot", reduce_only |-> FALSE]

\* API_RETRY_COUNT of freqtrade.exchange.common, the retrier's default
ApiRetryCount == 4

\* what the venue library answers to a request
VenueAnswers ==
    {"ok", "InsufficientFunds", "InvalidOrder", "BadRequest", "DDoSProtection",
     "OperationFailed", "ExchangeError", "BaseError"}

\* the except clauses of create_order, create_stoploss and cancel_order: the
\* adapter error a venue error becomes
map_error(op, answer) ==
    IF answer = "InsufficientFunds" /\ op # "cancel_order" THEN "InsufficientFundsError"
    ELSE IF answer = "InvalidOrder" THEN "InvalidOrderException"
    ELSE IF answer = "BadRequest" /\ op = "create_stoploss" THEN "InvalidOrderException"
    ELSE IF answer = "DDoSProtection" THEN "DDosProtection"
    ELSE IF answer \in {"OperationFailed", "ExchangeError", "InsufficientFunds",
                        "BadRequest"}
         THEN "TemporaryError"
    ELSE "OperationalException"

\* the except clauses of set_margin_mode and _set_leverage; "none" when the
\* error is accepted (accept_fail)
map_prep_error(request, answer, accept_fail) ==
    IF answer = "DDoSProtection" THEN "DDosProtection"
    ELSE IF \/ answer = "BadRequest"
            \/ (answer = "InsufficientFunds" /\ request = "set_leverage")
         THEN IF accept_fail THEN "none" ELSE "TemporaryError"
    ELSE IF answer \in {"OperationFailed", "ExchangeError", "InsufficientFunds",
                        "InvalidOrder"}
         THEN "TemporaryError"
    ELSE "OperationalException"

\* the decorator with the retries of create_stoploss raised to the default
retries_of_default(op) ==
    IF op = "create_order" THEN 0
    ELSE ApiRetryCount

\* the retries the decorator of the operation grants: create_order has no
\* decorator, create_stoploss has @retrier(retries=0), cancel_order @retrier
retries_of(op) ==
    IF op = "create_order" THEN 0
    ELSE IF op = "create_stoploss" THEN 0
    ELSE ApiRetryCount

\* the errors the retrier catches: TemporaryError (DDosProtection is one) and
\* RetryableOrderError
retrier_catches(err) == err \in {"TemporaryError", "DDosProtection", "RetryableOrderError"}

\* _lev_prep runs before the order request, except for a reduceOnly
\* create_order, and sends requests only outside spot mode
first_phase(call) ==
    IF \/ call.op = "cancel_order"
       \/ call.mode = "spot"
       \/ (call.op = "create_order" /\ call.reduce_only)
    THEN "order"
    ELSE "margin"

\* the venue request an attempt of the phase sends
request_of(phase, op) ==
    IF phase = "margin" THEN "set_margin_mode"
    ELSE IF phase = "leverage" THEN "set_leverage"
    ELSE IF op = "cancel_order" THEN "cancel_order"
    ELSE "create_order"

\* a caller starts one live operation
PlaceCall ==
    /\ ppc = "idle"
    /\ \E op \in PlaceOps, mode \in TradingModes, reduce_only \in BOOLEAN :
         LET call == [op |-> op, mode |-> mode, reduce_only |-> reduce_only]
         IN  /\ op # "create_order" => ~reduce_only
             /\ pop' = call
             /\ pouter' = retries_of(op)
             /\ ppc' = first_phase(call)
    /\ pcount' = ApiRetryCount
    /\ requests' = <<>>
    /\ perr' = "none"
    /\ UNCHANGED <<ohlcvVars, loopVars, tradeVars, dryVars, lateVars>>

\* the operation raises err out of its body: its own retrier, if it has
\* retries left for the error, runs the body again
RaiseOut(err) ==
    /\ perr' = err
    /\ IF retrier_catches(err) /\ pouter > 0
       THEN /\ ppc' = first_phase(pop)
            /\ pouter' = pouter - 1
            /\ pcount' = ApiRetryCount
       ELSE /\ ppc' = "raised"
            /\ UNCHANGED <<pouter, pcount>>

\* one attempt of set_margin_mode or _set_leverage inside _lev_prep
PrepAttempt ==
    /\ ppc \in {"margin", "leverage"}
    /\ requests' = Append(requests, request_of(ppc, pop.op))
    /\ \E answer \in VenueAnswers \ {"InvalidOrder"} :
         LET err == IF answer = "ok" THEN "none"
                    ELSE map_prep_error(request_of(ppc, pop.op), answer,
                                        pop.op = "create_stoploss")
         IN  IF err = "none"
             THEN /\ ppc' = IF ppc = "margin" THEN "leverage" ELSE "order"
                  /\ pcount' = ApiRetryCount
                  /\ UNCHANGED <<pouter, perr>>
             ELSE IF retrier_catches(err) /\ pcount > 0
                  THEN /\ pcount' = pcount - 1
                       /\ perr' = err
                       /\ UNCHANGED <<ppc, pouter>>
                  ELSE RaiseOut(err)
    /\ UNCHANGED pop
    /\ UNCHANGED <<ohlcvVars, loopVars, tradeVars, dryVars, lateVars>>

\* the request of the operation itself goes to the venue and is answered
PlaceAttempt ==
    /\ ppc = "order"
    /\ requests' = Append(requests, request_of(ppc, pop.op))
    /\ \E answer \in VenueAnswers :
         IF answer = "ok"
         THEN /\ ppc' = "returned"
              /\ perr' = "none"
              /\ UNCHANGED <<pouter, pcount>>
         ELSE RaiseOut(map_error(pop.op, answer))
    /\ UNCHANGED pop
    /\ UNCHANGED <<ohlcvVars, loopVars, tradeVars, dryVars, lateVars>>

\* the operation has returned or raised to its caller
PlaceEnd ==
    /\ ppc \in {"returned", "raised"}
    /\ ppc' = "idle"
    /\ pop' = NoOp
    /\ pcount' = 0
    /\ pouter' = 0
    /\ requests' = <<>>
    /\ perr' = "none"
    /\ UNCHANGED <<ohlcvVars, loopVars, tradeVars, dryVars, lateVars>>

\* self.markets, and the pairs a caller may ask about
Markets == {"BTC/USDT"}
AskedPairs == Markets \cup {"XRP/USDT"}

\* get_min_pair_stake_amount and get_max_pair_stake_amount: the lookup of the
\* market at the head of _get_stake_amount_limit
StakeAmountLimit ==
    /\ ppc = "idle"
    /\ \E pair \in AskedPairs,
          op \in {"get_min_pair_stake_amount", "get_max_pair_stake_amount"} :
         /\ pop' = [NoOp EXCEPT !.op = op]
         /\ IF pair \in Markets
            THEN ppc' = "returned" /\ perr' = "none"
            ELSE ppc' = "raised" /\ perr' = "ValueError"
    /\ UNCHANGED <<pcount, pouter, requests>>
    /\ UNCHANGED <<ohlcvVars, loopVars, tradeVars, dryVars, lateVars>>

(***************************************************************************)
(* create_stoploss as a whole: the limit-rate test, then the dry-run       *)
(* branch or the request to the venue.                                     *)
(***************************************************************************)
\* order_types without the key stoploss_on_exchange_limit_ratio
NoRatio == 0
\* the default of stoploss_on_exchange_limit_ratio, in percent
DefaultLimitRatio == 99
\* limit_rate = None of a stoploss that is not a limit order
NoLimitRate == -1
\* the stop prices asked for; 0 is the stop of a position closed right away
StopPrices == Rates \cup {0}

\* order_types.get("stoploss_on_exchange_limit_ratio", 0.99)
limit_price_pct_of(ratio) == IF ratio = NoRatio THEN DefaultLimitRatio ELSE ratio

NoStoploss(dry_run) ==
    [dry_run |-> dry_run, called |-> FALSE, side |-> "sell", stop_price |-> 0,
     ratio |-> NoRatio, user_order_type |-> "market", limit_rate |-> NoLimitRate,
     raised |-> "none", held |-> {}]

\* create_stoploss on a venue with stoploss_on_exchange
StoplossCall ==
    /\ ppc = "idle"
    /\ Cardinality(DOMAIN dry_run_open_orders) < MaxOrders
    /\ \E pair \in Pairs, available \in StoplossOrderTypes,
          user_order_type \in {"limit", "market"}, side \in Sides,
          amount \in {2}, stop_price \in StopPrices,
          ratio \in LimitRatios \cup {NoRatio}, mode \in TradingModes :
         LET ordertype == get_stop_order_type(available, user_order_type)
             stop_price_norm == stop_price_to_precision(stop_price, side)
             limit_price_pct == limit_price_pct_of(ratio)
             rejected == /\ user_order_type = "limit"
                         /\ bad_stop_price(stop_price, limit_price_pct, side)
             dry_order == create_dry_run_order(pair, ordertype, side, amount,
                                               stop_price_norm, TRUE)
             call == [op |-> "create_stoploss", mode |-> mode,
                      reduce_only |-> FALSE]
         IN  /\ sl' = [dry_run |-> sl.dry_run, called |-> TRUE, side |-> side,
                       stop_price |-> stop_price, ratio |-> ratio,
                       user_order_type |-> user_order_type,
                       limit_rate |->
                           IF user_order_type = "limit"
                           THEN get_stop_limit_rate(stop_price, limit_price_pct, side)
                           ELSE NoLimitRate,
                       raised |-> IF rejected THEN "InvalidOrderException"
                                  ELSE "none",
                       held |-> DOMAIN dry_run_open_orders]
             /\ pop' = call
             /\ requests' = <<>>
             /\ IF rejected
                THEN /\ ppc' = "raised"
                     /\ perr' = "InvalidOrderException"
                     /\ dry_err' = "InvalidOrderException"
                     /\ UNCHANGED <<pcount, pouter>>
                     /\ UNCHANGED <<dry_run_open_orders, created, crossed, dry_clock>>
                ELSE IF sl.dry_run
                THEN /\ dry_run_open_orders' =
                            Put(dry_run_open_orders, dry_order.id, dry_order)
                     /\ created' = Put(created, dry_order.id,
                                       [order |-> dry_order, ordertype |-> ordertype,
                                        stop_loss |-> TRUE, polls |-> 0])
                     /\ crossed' = IF TopOfBookCrosses(side, stop_price_norm)
                                   THEN crossed \cup {dry_order.id} ELSE crossed
                     /\ dry_clock' = dry_clock + 1
                     /\ dry_err' = "none"
                     /\ ppc' = "returned"
                     /\ perr' = "none"
                     /\ UNCHANGED <<pcount, pouter>>
                ELSE /\ ppc' = first_phase(call)
                     /\ pouter' = retries_of("create_stoploss")
                     /\ pcount' = ApiRetryCount
                     /\ perr' = "none"
                     /\ UNCHANGED <<dry_run_open_orders, created, crossed, dry_clock,
                                    dry_err>>
    /\ UNCHANGED <<has_l2_order_book, book>>
    /\ UNCHANGED <<ohlcvVars, loopVars, tradeVars, rateVars, ordVars, canceled, fillp, levq, fordVars, probeVars>>

(***************************************************************************)
(* fetch_order on a venue without fetchOrder: fetch_order_emulated inside  *)
(* fetch_order's try, under @retrier(retries=API_FETCH_ORDER_RETRY_COUNT).  *)
(***************************************************************************)
\* API_FETCH_ORDER_RETRY_COUNT of freqtrade.exchange.common, scaled down
FetchOrderRetries == 2

\* what the venue library answers to fetch_open_order / fetch_closed_order
FetchAnswers ==
    {"ok", "OrderNotFound", "InvalidOrder", "DDoSProtection",
     "OperationFailed", "BaseError"}

\* the except clauses of fetch_order_emulated and of fetch_order
map_fetch_error(answer) ==
    IF answer = "OrderNotFound" THEN "RetryableOrderError"
    ELSE IF answer = "InvalidOrder" THEN "InvalidOrderException"
    ELSE IF answer = "DDoSProtection" THEN "DDosProtection"
    ELSE IF answer \in {"OperationFailed", "ExchangeError"} THEN "TemporaryError"
    ELSE "OperationalException"

\* an emulation that queries the closed order after any failed open query
closed_query_follows_any(answer) == answer # "ok"

\* fetch_order_emulated: the answers of fetch_open_order after which
\* fetch_closed_order is called
closed_query_follows(answer) == answer = "OrderNotFound"

\* a caller calls fetch_order(order_id, pair) outside dry-run
FetchOrderCall ==
    /\ ppc = "idle"
    /\ pop' = [NoOp EXCEPT !.op = "fetch_order"]
    /\ pouter' = FetchOrderRetries
    /\ ppc' = "open"
    /\ requests' = <<>>
    /\ answers' = <<>>
    /\ perr' = "none"
    /\ UNCHANGED pcount
    /\ UNCHANGED <<ohlcvVars, loopVars, tradeVars, dryVars, rateVars, seenVars, fordVars, probeVars>>

\* fetch_order raises err: its retrier runs it again while it has retries
FetchRaiseOut(err) ==
    /\ perr' = err
    /\ IF retrier_catches(err) /\ pouter > 0
       THEN ppc' = "open" /\ pouter' = pouter - 1
       ELSE ppc' = "raised" /\ UNCHANGED pouter

\* self._api.fetch_open_order(order_id, pair)
FetchOpenOrder ==
    /\ ppc = "open"
    /\ \E answer \in FetchAnswers :
         /\ requests' = Append(requests, "fetch_open_order")
         /\ answers' = Append(answers, answer)
         /\ IF answer = "ok"
            THEN ppc' = "returned" /\ perr' = "none" /\ UNCHANGED pouter
            ELSE IF closed_query_follows(answer)
                 THEN ppc' = "closed" /\ UNCHANGED <<perr, pouter>>
                 ELSE FetchRaiseOut(map_fetch_error(answer))
    /\ UNCHANGED <<pop, pcount>>
    /\ UNCHANGED <<ohlcvVars, loopVars, tradeVars, dryVars, rateVars, seenVars, fordVars, probeVars>>

\* self._api.fetch_closed_order(order_id, pair), in the handler of the open
\* query's OrderNotFound; its other errors reach fetch_order's except clauses
FetchClosedOrder ==
    /\ ppc = "closed"
    /\ \E answer \in FetchAnswers :
         /\ requests' = Append(requests, "fetch_closed_order")
         /\ answers' = Append(answers, answer)
         /\ IF answer = "ok"
            THEN ppc' = "returned" /\ perr' = "none" /\ UNCHANGED pouter
            ELSE FetchRaiseOut(map_fetch_error(answer))
    /\ UNCHANGED <<pop, pcount>>
    /\ UNCHANGED <<ohlcvVars, loopVars, tradeVars, dryVars, rateVars, seenVars, fordVars, probeVars>>

\* fetch_order has returned or raised to its caller
FetchOrderEnd ==
    /\ ppc \in {"returned", "raised"}
    /\ pop.op = "fetch_order"
    /\ ppc' = "idle"
    /\ pop' = NoOp
    /\ pouter' = 0
    /\ requests' = <<>>
    /\ answers' = <<>>
    /\ perr' = "none"
    /\ UNCHANGED pcount
    /\ UNCHANGED <<ohlcvVars, loopVars, tradeVars, dryVars, rateVars, seenVars, fordVars, probeVars>>

(***************************************************************************)
(* The rate cache: get_rate and get_rates of one pair, entry side.  Every   *)
(* access of the TTL cache is a step of its own, so that callers            *)
(* interleave between the read, the venue call and the write.               *)
(***************************************************************************)
NoTicker == [ask |-> 0, last |-> 0]
\* the tickers the venue may answer; ask 0 is a ticker without an ask
Tickers ==
    {[ask |-> a, last |-> 102] : a \in {0, 101, 103}}
\* price_last_balance of entry_pricing: 0.0 (the default) or 1.0
PriceLastBalances == {0, 1}

RateOps == {"get_rate", "get_rates"}
NoRateCall ==
    [op |-> "none", refresh |-> FALSE, balance |-> 0, read |-> 0,
     ticker |-> NoTicker, fresh |-> 0, result |-> 0, err |-> "none"]

\* _get_rate_from_ticker, side entry: the ask, moved towards last by
\* price_last_balance when it is above last; 0 stands for None
get_rate_from_ticker(tk, balance) ==
    IF tk.last # 0 /\ tk.ask # 0 /\ tk.ask > tk.last
    THEN tk.ask + balance * (tk.last - tk.ask)
    ELSE tk.ask

\* a cache in which only the read is inside "with self._cache_lock"
with_cache_lock_read_only(access) == access = "read"

\* the accesses get_rate and get_rates wrap in "with self._cache_lock"
with_cache_lock(access) == access \in {"read", "write"}

\* get_rate(pair, refresh, "entry", ...) or get_rates(pair, refresh, ...) is
\* called: without refresh the cache is read first
RateCall(t) ==
    /\ rpc[t] = "idle"
    /\ \E op \in RateOps, refresh \in BOOLEAN, balance \in PriceLastBalances :
         /\ rcall' = [rcall EXCEPT ![t] =
                [NoRateCall EXCEPT !.op = op, !.refresh = refresh,
                                   !.balance = balance]]
         /\ rpc' = [rpc EXCEPT ![t] = IF refresh THEN "fetch" ELSE "enter_read"]
    /\ UNCHANGED <<rate_cache, cache_lock, ticker, unguarded>>
    /\ UNCHANGED <<ohlcvVars, loopVars, tradeVars, dryVars, placeVars, ordVars, seenVars, fordVars, probeVars>>

\* with self._cache_lock: entered before the read and before the write
RateEnter(t) ==
    /\ rpc[t] \in {"enter_read", "enter_write"}
    /\ LET access == IF rpc[t] = "enter_read" THEN "read" ELSE "write"
       IN  IF with_cache_lock(access)
           THEN /\ cache_lock = "none"
                /\ cache_lock' = t
                /\ rpc' = [rpc EXCEPT ![t] = access]
           ELSE /\ rpc' = [rpc EXCEPT ![t] = access]
                /\ UNCHANGED cache_lock
    /\ UNCHANGED <<rate_cache, ticker, rcall, unguarded>>
    /\ UNCHANGED <<ohlcvVars, loopVars, tradeVars, dryVars, placeVars, ordVars, seenVars, fordVars, probeVars>>

\* rate = cache_rate.get(pair), the lock released; a truthy rate is returned
RateRead(t) ==
    /\ rpc[t] = "read"
    /\ rcall' = [rcall EXCEPT ![t].read = rate_cache,
                              ![t].result = rate_cache]
    /\ rpc' = [rpc EXCEPT ![t] = IF rate_cache # 0 THEN "done" ELSE "fetch"]
    /\ unguarded' = (unguarded \/ cache_lock # t)
    /\ cache_lock' = IF cache_lock = t THEN "none" ELSE cache_lock
    /\ UNCHANGED <<rate_cache, ticker>>
    /\ UNCHANGED <<ohlcvVars, loopVars, tradeVars, dryVars, placeVars, ordVars, seenVars, fordVars, probeVars>>

\* fetch_ticker (by get_rates before it calls get_rate, else by get_rate) and
\* _get_rate_from_ticker; PricingError when the rate is None.  get_rate called
\* by get_rates without refresh reads the cache once more before it computes.
RateFetch(t) ==
    /\ rpc[t] = "fetch"
    /\ IF rcall[t].op = "get_rates" /\ ~rcall[t].refresh
          /\ rcall[t].ticker = NoTicker /\ ticker # NoTicker
       THEN /\ rcall' = [rcall EXCEPT ![t].ticker = ticker]
            /\ rpc' = [rpc EXCEPT ![t] = "enter_read"]
       ELSE LET tk == IF rcall[t].ticker # NoTicker THEN rcall[t].ticker
                      ELSE ticker
                rate == get_rate_from_ticker(tk, rcall[t].balance)
            IN  IF rate = 0
                THEN /\ rcall' = [rcall EXCEPT ![t].err = "PricingError",
                                               ![t].ticker = tk]
                     /\ rpc' = [rpc EXCEPT ![t] = "done"]
                ELSE /\ rcall' = [rcall EXCEPT ![t].fresh = rate,
                                               ![t].ticker = tk]
                     /\ rpc' = [rpc EXCEPT ![t] = "enter_write"]
    /\ UNCHANGED <<rate_cache, cache_lock, ticker, unguarded>>
    /\ UNCHANGED <<ohlcvVars, loopVars, tradeVars, dryVars, placeVars, ordVars, seenVars, fordVars, probeVars>>

\* cache_rate[pair] = rate, the lock released; return rate
RateWrite(t) ==
    /\ rpc[t] = "write"
    /\ rate_cache' = rcall[t].fresh
    /\ rcall' = [rcall EXCEPT ![t].result = rcall[t].fresh]
    /\ rpc' = [rpc EXCEPT ![t] = "done"]
    /\ unguarded' = (unguarded \/ cache_lock # t)
    /\ cache_lock' = IF cache_lock = t THEN "none" ELSE cache_lock
    /\ UNCHANGED ticker
    /\ UNCHANGED <<ohlcvVars, loopVars, tradeVars, dryVars, placeVars, ordVars, seenVars, fordVars, probeVars>>

\* the caller has its rate or its PricingError
RateReturn(t) ==
    /\ rpc[t] = "done"
    /\ rpc' = [rpc EXCEPT ![t] = "idle"]
    /\ rcall' = [rcall EXCEPT ![t] = NoRateCall]
    /\ UNCHANGED <<rate_cache, cache_lock, ticker, unguarded>>
    /\ UNCHANGED <<ohlcvVars, loopVars, tradeVars, dryVars, placeVars, ordVars, seenVars, fordVars, probeVars>>

\* the venue's ticker moves
TickerChange ==
    /\ \E tk \in Tickers \ {ticker} : ticker' = tk
    /\ UNCHANGED <<rate_cache, cache_lock, rpc, rcall, unguarded>>
    /\ UNCHANGED <<ohlcvVars, loopVars, tradeVars, dryVars, placeVars, ordVars, seenVars, fordVars, probeVars>>

\* the ttl of the TTLCache entry runs out
RateExpire ==
    /\ rate_cache # 0
    /\ rate_cache' = 0
    /\ UNCHANGED <<cache_lock, ticker, rpc, rcall, unguarded>>
    /\ UNCHANGED <<ohlcvVars, loopVars, tradeVars, dryVars, placeVars, ordVars, seenVars, fordVars, probeVars>>

InitOhlcv ==
    /\ now = T0
    /\ klines = NoTable
    /\ pairs_last_refresh_time = 0
    /\ pc = [t \in Threads |-> "idle"]
    /\ job = [t \in Threads |-> NoJob]
    /\ ticks = [t \in Threads |-> <<>>]
    /\ old = [t \in Threads |-> NoTable]
    /\ ret = NoTable
    /\ merged = FALSE
    /\ seen = [t \in Threads |-> NothingSeen]

InitLoop ==
    /\ loop_lock = "none"
    /\ in_loop = {}
    /\ loop_closed = FALSE
    /\ lpc = [t \in Threads |-> "idle"]
    /\ lop = [t \in Threads |-> "none"]

InitTrades ==
    /\ tpc = "idle"
    /\ tcfg = [pagination |-> "time", overlap |-> TRUE]
    /\ tcall = NoCall
    /\ cursor = 0
    /\ trades = <<>>
    /\ pages = <<>>
    /\ cancelled = FALSE
    /\ trades_cache = NoTable
    /\ sidecar = <<>>

InitDry ==
    /\ has_l2_order_book = TRUE
    /\ book = QuietBook
    /\ dry_clock = 1
    /\ dry_run_open_orders = <<>>
    /\ created = <<>>
    /\ crossed = {}
    /\ dry_err = "none"

InitPlace ==
    /\ ppc = "idle"
    /\ pop = NoOp
    /\ pcount = 0
    /\ pouter = 0
    /\ requests = <<>>
    /\ perr = "none"

InitRate ==
    /\ rate_cache = 0
    /\ cache_lock = "none"
    /\ ticker = [ask |-> 101, last |-> 102]
    /\ rpc = [t \in Threads |-> "idle"]
    /\ rcall = [t \in Threads |-> NoRateCall]
    /\ unguarded = FALSE

InitOrd == answers = <<>>

InitSeen ==
    /\ sl = NoStoploss(TRUE) /\ canceled = {} /\ fillp = NoFill
    /\ levq = NoLeverageCall

InitFord == fo = NoFetchOrders /\ fo_clock = MaxClock - 2

InitMarkets ==
    /\ mk \in {NoMarkets(futures, needs_trading_fees) :
                  futures \in BOOLEAN, needs_trading_fees \in BOOLEAN}
    /\ mk_clock = 1
    /\ mk_venue = 1

InitPure ==
    /\ stk = NoStakeLimits
    /\ liq = NoLiquidationCall
    /\ psd = NoPriceSideCall
    /\ InitOwc
    /\ tp = NoTimePull

InitProbe ==
    /\ InitPure
    /\ vsc = NoStartupCheck
    /\ mk = NoMarkets(FALSE, FALSE) /\ mk_clock = 1 /\ mk_venue = 1

InitLate == InitRate /\ InitOrd /\ InitSeen /\ InitFord /\ InitProbe

Init == InitOhlcv /\ InitLoop /\ InitTrades /\ InitDry /\ InitPlace /\ InitLate

\* One caller thread, every argument: the trading loop's refreshes.
NextOhlcv ==
    \/ Build("t1", BOOLEAN, BOOLEAN, SinceChoices)
    \/ Run("t1", 1..2, BOOLEAN)
    \/ ProcessRead("t1")
    \/ ProcessStore("t1")
    \/ Tick

Spec == Init /\ [][NextOhlcv]_vars

\* Two caller threads (the trading loop and a control-plane thread), both
\* refreshing the key with cache=True and the default arguments.
NextOhlcvConc ==
    \/ \E t \in Threads : Build(t, {TRUE}, {TRUE}, {0})
    \/ \E t \in Threads : Run(t, {1}, {TRUE})
    \/ \E t \in Threads : ProcessRead(t)
    \/ \E t \in Threads : ProcessStore(t)
    \/ Tick

SpecOhlcvConc == Init /\ [][NextOhlcvConc]_vars

(***************************************************************************)
(* Properties of the OHLCV cache                                           *)
(***************************************************************************)
StrictlyIncreasing(rows) == \A i \in 1..(Len(rows) - 1) : rows[i].ts < rows[i + 1].ts

\* C1: every table held in the OHLCV cache has strictly increasing ts_ms, so no
\* two rows share a ts_ms, after any sequence of refreshes with cache=True.
C1_CacheStrictlyIncreasing == klines.present => StrictlyIncreasing(klines.rows)

\* a table that a merge of an old table with a new pull stored
C1_Witness == klines.present /\ merged /\ Len(klines.rows) >= 2

\* C2: with two threads refreshing the same key, merges are serialised: a store
\* into the cache never drops a row another thread's merge put there (a row at
\* or after the oldest row the store keeps is still there after the store).
C2_MergesSerialised ==
    [][\A t \in Threads :
          (pc[t] = "store" /\ pc'[t] = "idle" /\ klines.present)
          => \A i \in 1..Len(klines.rows) :
                (klines'.rows # <<>> /\ klines.rows[i].ts >= klines'.rows[1].ts)
                => klines.rows[i].ts \in TsOf(klines'.rows)]_vars

\* C3: a cached table never holds more than candle_limit + startup_count rows,
\* the first pull of a key and any caller-supplied since_ms included.
C3_CacheBounded == klines.present => Len(klines.rows) <= CandleLimit + StartupCount

\* the calls with cache=True for a key that was cached when they started
CachedCalls ==
    {t \in Threads :
        seen[t].did # "none" /\ seen[t].cache /\ seen[t].table.present}

\* The wall clock of a call lies inside the candle in progress, which opened
\* at `at`: an instant that is a whole number of timeframes is in the past of
\* the wall clock when it is at or before `at`.
InThePast(ts, at) == ts <= at

\* C14 as stated: refresh_latest_ohlcv with cache=True fetches for a cached key
\* exactly when the key's last-refresh timestamp plus one interval is in the
\* past; otherwise it serves the cached table and makes no call.
C14_FetchIffIntervalPast ==
    \A t \in CachedCalls :
        (seen[t].did = "job") <=> InThePast(seen[t].plr + 1, seen[t].at)

\* C14 amended: refresh_latest_ohlcv with cache=True fetches for a cached key
\* exactly when the key's last-refresh timestamp plus one interval is earlier
\* than the open time of the candle in progress; otherwise (the open time
\* itself included) it serves the cached table and makes no call.
C14_FetchIffBeforeCandleOpen ==
    \A t \in CachedCalls :
        /\ (seen[t].did = "job") <=> (seen[t].plr + 1 < seen[t].at)
        /\ seen[t].did = "cached" => seen[t].calls = 0 /\ ~seen[t].evicted

\* a call that fetched for a cached key
C14_Witness ==
    \E t \in CachedCalls :
        seen[t].did = "job" /\ seen[t].plr + 1 < seen[t].at /\ seen[t].calls >= 1

\* the calls for a cached key whose oldest retained candle is newer than the
\* since_ms of the caller
CallsReachingBack ==
    {t \in CachedCalls :
        /\ seen[t].since_ms # 0
        /\ seen[t].table.rows # <<>>
        /\ seen[t].table.rows[1].ts > seen[t].since_ms}

\* C15: when refresh_latest_ohlcv is called for a cached key whose oldest
\* retained candle is newer than the caller's since_ms, the cached table of the
\* key is dropped and a fresh backfill is started.
C15_DroppedWhenSinceOlder ==
    \A t \in CallsReachingBack : seen[t].did = "job" /\ seen[t].evicted

\* the calls whose job ran to its end
JobsRun == {t \in Threads : seen[t].did = "job" /\ seen[t].calls >= 1}

\* C16: a backfill that refresh_latest_ohlcv starts for one key
\* issues at most required_candle_call_count REST calls, hence at most 5,
\* whatever since_ms the caller supplies.
C16_CallsBounded ==
    \A t \in JobsRun :
        seen[t].calls <= required_candle_call_count /\ seen[t].calls <= 5

\* the calls whose job for the key raised
FailedCalls == {t \in Threads : seen[t].did = "job" /\ seen[t].failed}

\* C17: when the job of a key raises in refresh_latest_ohlcv, the key is
\* omitted from the result and its cached table and last-refresh timestamp are
\* left as the call found them (the other jobs of the batch are untouched by
\* the failure).
C17_FailedKeyUnchanged ==
    \A t \in FailedCalls :
        /\ ret = NoTable
        /\ pairs_last_refresh_time = seen[t].plr
        /\ klines = seen[t].table

OneIntervalApart(rows) ==
    \A i \in 1..(Len(rows) - 1) : rows[i + 1].ts - rows[i].ts = 1

\* C18: after any merge done by refresh_latest_ohlcv (fill enabled), every two
\* consecutive rows of the cached table are exactly one timeframe interval
\* apart, also when the pulled rows start more than one interval after the
\* last cached row.
C18_MergedRowsOneIntervalApart ==
    (klines.present /\ merged) => OneIntervalApart(klines.rows)

\* a merge of a pull that started more than one interval after the last
\* cached row: the table reaches the pull and holds a filled candle
C18_Witness ==
    \E t \in JobsRun :
        /\ pc[t] = "idle" /\ merged /\ klines.present
        /\ seen[t].table.present /\ seen[t].table.rows # <<>>
        /\ ~seen[t].evicted
        /\ seen[t].since_ms >
                seen[t].table.rows[Len(seen[t].table.rows)].ts + 1
        /\ klines.rows # <<>>
        /\ klines.rows[Len(klines.rows)].ts >= seen[t].since_ms
        /\ \E i \in 1..Len(klines.rows) :
                /\ klines.rows[i].vol = 0
                /\ klines.rows[i].ts >
                        seen[t].table.rows[Len(seen[t].table.rows)].ts

\* the calls with cache=True and drop_incomplete=True that pulled at least one
\* row and stored their result by a merge with the cached table
MergedDropCalls ==
    {t \in JobsRun :
        /\ pc[t] = "idle" /\ ~seen[t].failed /\ merged
        /\ seen[t].cache /\ seen[t].drop
        /\ Len(seen[t].pull) >= 1}

\* the pull's last row is the candle in progress at the time of the pull
LastClosedOf(pull) == pull[Len(pull) - 1]

\* C19: with ohlcv_partial_candle and drop_incomplete in force, after a pull of
\* any length >= 1 is merged, the last row of the table is the last fully
\* closed candle of the pull and the key's last-refreshed timestamp equals the
\* ts_ms of that row.
C19_LastRowIsLastClosed ==
    \A t \in MergedDropCalls :
        /\ klines.present /\ klines.rows # <<>>
        /\ pairs_last_refresh_time = klines.rows[Len(klines.rows)].ts
        /\ Len(seen[t].pull) >= 2
              => klines.rows[Len(klines.rows)] = LastClosedOf(seen[t].pull)

\* the finished calls that repeated the call before them with identical
\* inputs: the same arguments, the same clock, the same venue data
RepeatedCalls ==
    {t \in Threads : pc[t] = "idle" /\ Completed(seen[t]) /\ seen[t].again}

\* C20: calling refresh_latest_ohlcv twice in succession with identical inputs
\* leaves the cached table after the second call identical to the table after
\* the first call.
C20_SecondCallSameTable ==
    \A t \in RepeatedCalls : klines = seen[t].table

(***************************************************************************)
(* The event loop and its lock.  A thread runs one operation at a time;    *)
(* every operation but close wraps run_until_complete in                   *)
(* "with self._loop_lock".  asyncio refuses run_until_complete on a loop   *)
(* that is running or closed (RuntimeError).                               *)
(***************************************************************************)
LockedOps ==
    {"reload_markets", "refresh_latest_ohlcv", "get_historic_ohlcv",
     "refresh_latest_trades", "get_historic_trades", "load_leverage_tiers"}
LoopOps == LockedOps \cup {"close"}

\* a caller thread starts an operation
LoopCall(t) ==
    /\ lpc[t] = "idle"
    /\ \E op \in LoopOps : lop' = [lop EXCEPT ![t] = op]
    /\ lpc' = [lpc EXCEPT ![t] = "called"]
    /\ UNCHANGED <<loop_lock, in_loop, loop_closed>>
    /\ UNCHANGED <<ohlcvVars, tradeVars, dryVars, placeVars, lateVars>>

\* with self._loop_lock:
LoopAcquire(t) ==
    /\ lpc[t] = "called"
    /\ lop[t] \in LockedOps
    /\ loop_lock = "none"
    /\ loop_lock' = t
    /\ lpc' = [lpc EXCEPT ![t] = "locked"]
    /\ UNCHANGED <<in_loop, loop_closed, lop>>
    /\ UNCHANGED <<ohlcvVars, tradeVars, dryVars, placeVars, lateVars>>

\* self.loop.run_until_complete(...): under the lock, or straight from close
LoopEnter(t) ==
    /\ \/ lpc[t] = "locked"
       \/ lpc[t] = "called" /\ lop[t] = "close"
    /\ IF in_loop = {} /\ ~loop_closed
       THEN /\ in_loop' = in_loop \cup {t}
            /\ lpc' = [lpc EXCEPT ![t] = "running"]
            /\ UNCHANGED <<loop_lock, lop>>
       ELSE \* RuntimeError: leaves the with block, the call ends
            /\ loop_lock' = IF loop_lock = t THEN "none" ELSE loop_lock
            /\ lpc' = [lpc EXCEPT ![t] = "idle"]
            /\ lop' = [lop EXCEPT ![t] = "none"]
            /\ UNCHANGED in_loop
    /\ UNCHANGED loop_closed
    /\ UNCHANGED <<ohlcvVars, tradeVars, dryVars, placeVars, lateVars>>

\* run_until_complete returns; the with block releases the lock; close goes
\* on to self.loop.close()
LoopLeave(t) ==
    /\ lpc[t] = "running"
    /\ in_loop' = in_loop \ {t}
    /\ loop_lock' = IF loop_lock = t THEN "none" ELSE loop_lock
    /\ loop_closed' = (loop_closed \/ lop[t] = "close")
    /\ lpc' = [lpc EXCEPT ![t] = "idle"]
    /\ lop' = [lop EXCEPT ![t] = "none"]
    /\ UNCHANGED <<ohlcvVars, tradeVars, dryVars, placeVars, lateVars>>

NextLoop ==
    \/ \E t \in Threads : LoopCall(t)
    \/ \E t \in Threads : LoopAcquire(t)
    \/ \E t \in Threads : LoopEnter(t)
    \/ \E t \in Threads : LoopLeave(t)

SpecLoop == Init /\ [][NextLoop]_vars

\* C4: at most one caller thread runs tasks on the event loop, and every thread
\* that has entered the loop (close included) holds the loop lock.
C4_LoopEntryLocked ==
    /\ Cardinality(in_loop) <= 1
    /\ \A t \in in_loop : loop_lock = t

(***************************************************************************)
(* Trade pagination and the trade cache                                    *)
(***************************************************************************)
InitTradesAny ==
    /\ tpc = "idle"
    /\ tcfg \in [pagination : {"time", "id"}, overlap : BOOLEAN]
    /\ tcall = NoCall
    /\ cursor = 0
    /\ trades = <<>>
    /\ pages = <<>>
    /\ cancelled = FALSE
    /\ trades_cache = NoTable
    /\ sidecar = <<>>

\* get_historic_trades: one paginated pull after the other
NextTrades ==
    \/ HistoricCall
    \/ StartupPage
    \/ StartupCancel
    \/ LoopPage
    \/ LoopCancel
    \/ FetchError
    \/ HistoricReturn

InitTradesSpec == InitOhlcv /\ InitLoop /\ InitTradesAny /\ InitDry /\ InitPlace /\ InitLate

SpecTrades == InitTradesSpec /\ [][NextTrades]_vars

\* refresh_latest_trades: pull, merge into the cache, write the sidecar
NextTradeCache ==
    \/ RefreshCall
    \/ StartupPage
    \/ LoopPage
    \/ FetchError
    \/ RefreshProcess

\* the sidecar may hold the trades a previous run of the bot stored
InitTradeCache ==
    /\ tpc = "idle"
    /\ tcfg \in [pagination : {"time", "id"}, overlap : BOOLEAN]
    /\ tcall = NoCall
    /\ cursor = 0
    /\ trades = <<>>
    /\ pages = <<>>
    /\ cancelled = FALSE
    /\ trades_cache = NoTable
    /\ sidecar \in {<<>>, TradeSeq(1, 2)}

InitTradeCacheSpec == InitOhlcv /\ InitLoop /\ InitTradeCache /\ InitDry /\ InitPlace /\ InitLate

SpecTradeCache == InitTradeCacheSpec /\ [][NextTradeCache]_vars

NonEmptyPages == SelectSeq(pages, LAMBDA t : t # <<>>)
IdsOf(rows) == {rows[i].id : i \in 1..Len(rows)}
IdPullDone ==
    tpc = "done" /\ tcfg.pagination = "id" /\ tcfg.overlap /\ ~cancelled

\* C5: id-based pagination on a venue that marks overlap returns the final
\* trade (the last trade of the last non-empty page) however the loop ends:
\* id unchanged, last timestamp beyond until, or an empty page.
C5_FinalTradeReturned ==
    (IdPullDone /\ NonEmptyPages # <<>>)
    => LET last_page == NonEmptyPages[Len(NonEmptyPages)]
       IN  last_page[Len(last_page)] \in Range(trades)

\* C6: two pages of length 3, the last trade of page 1 being the first of
\* page 2, on a venue that marks overlap: the pull returns, duplicates
\* dropped, exactly the 5 distinct trades, however it ends.
C6_TwoPagesFiveTrades ==
    (/\ IdPullDone
     /\ Len(pages) >= 2
     /\ pages[1] = TradeSeq(1, 3)
     /\ pages[2] = TradeSeq(3, 5)
     /\ \A i \in 3..Len(pages) : pages[i] \in {<<>>, TradeSeq(5, 5)})
    => /\ IdsOf(trades) = 1..5
       /\ Len(trades_df_remove_duplicates(trades)) = 5

\* C7: time-based pagination: after a non-empty page since is the last
\* trade's timestamp; the pull stops exactly when the page is empty, or has
\* length 1 with since unchanged, or its last timestamp exceeds until, and
\* otherwise goes on to fetch the next page.
C7_TimePaginationStops ==
    [][(tcfg.pagination = "time" /\ tpc = "loop" /\ Len(pages') = Len(pages) + 1)
        => LET t == pages'[Len(pages')]
           IN  /\ t # <<>> => cursor' = t[Len(t)].ts
               /\ tpc' \in {"done", "loop"}
               /\ tpc' = "done"
                    <=> \/ t = <<>>
                        \/ Len(t) = 1 /\ cursor' = cursor
                        \/ t[Len(t)].ts > tcall.until]_vars

\* a time-based pull that took a second page and ended on its own
C7_Witness ==
    /\ tpc = "done" /\ tcfg.pagination = "time" /\ ~cancelled
    /\ Len(pages) >= 2 /\ pages[Len(pages)] # <<>>

\* C8: a paginated pull of either dialect that is cancelled during a page
\* fetch returns the trades of the pages completed before, and does not raise.
C8_CancelReturnsPartial == cancelled => tpc = "done"

\* C9: every cached trade table has unique trade ids, the table stored by the
\* first refresh of a key included.
C9_TradeIdsUnique ==
    trades_cache.present
    => \A i, j \in 1..Len(trades_cache.rows) :
          trades_cache.rows[i].id = trades_cache.rows[j].id => i = j

(***************************************************************************)
(* The dry-run simulator: orders are placed and polled while the book      *)
(* moves, on a venue with or without an L2 order book endpoint.            *)
(***************************************************************************)
InitDryAny ==
    /\ has_l2_order_book \in BOOLEAN
    /\ book = QuietBook
    /\ dry_clock = 1
    /\ dry_run_open_orders = <<>>
    /\ created = <<>>
    /\ crossed = {}
    /\ dry_err = "none"

NextDry ==
    \/ CreateDryRunOrder
    \/ CreateStoploss
    \/ FetchDryRunOrder
    \/ BookChange

InitDrySpec == InitOhlcv /\ InitLoop /\ InitTrades /\ InitDryAny /\ InitPlace /\ InitLate

SpecDry == InitDrySpec /\ [][NextDry]_vars

\* the orders placed as plain limit orders (no stop order)
LimitOrders ==
    {id \in DOMAIN dry_run_open_orders :
        created[id].ordertype = "limit" /\ ~created[id].stop_loss}

KeepsIdentity(id) ==
    LET o == dry_run_open_orders[id]
        c == created[id].order
    IN  /\ o.id = id /\ c.id = id
        /\ o.symbol = c.symbol
        /\ o.side = c.side
        /\ o.amount = c.amount
        /\ o.price = c.price

MarketOrders ==
    {id \in DOMAIN dry_run_open_orders :
        created[id].ordertype = "market" /\ ~created[id].stop_loss}

\* the average price respects the 5% slippage cap around the rate
WithinSlippageCap(o) ==
    IF o.side = "buy"
    THEN o.average * 100 <= o.price * 105
    ELSE o.average * 100 >= o.price * 95

\* C12: create_dry_run_order for a market order that is not a stop order
\* returns and stores an order with status closed, filled = amount,
\* remaining = 0 and a fee at the taker rate, whose average price is at most
\* rate*1.05 for a buy and at least rate*0.95 for a sell.
C12_MarketOrderFilledWithinCap ==
    \A id \in MarketOrders :
        LET o == created[id].order
        IN  /\ o.status = "closed"
            /\ o.filled = o.amount
            /\ o.remaining = 0
            /\ ~o.fee.none /\ o.fee.rate = get_fee("taker")
            /\ WithinSlippageCap(o)

\* the stop orders: placed by create_stoploss
StopOrders == {id \in DOMAIN dry_run_open_orders : created[id].stop_loss}

\* C13: a dry-run stop order created by create_stoploss is open after
\* creation and stays open through every fetch_dry_run_order poll, whatever
\* the book contains and whatever venue order type it maps to; it is never
\* filled against the book.
C13_StopOrderStaysOpen ==
    \A id \in StopOrders :
        /\ created[id].order.status = "open"
        /\ created[id].order.filled = 0
        /\ dry_run_open_orders[id].status = "open"
        /\ dry_run_open_orders[id].filled = 0
        /\ dry_run_open_orders[id].fee.none

\* a stop order of venue type "limit", polled while the book crosses its
\* stop price, still open
C13_Witness ==
    \E id \in StopOrders :
        /\ created[id].ordertype = "limit"
        /\ created[id].polls = 1
        /\ id \in crossed
        /\ has_l2_order_book
        /\ TopOfBookCrosses(dry_run_open_orders[id].side, dry_run_open_orders[id].price)
        /\ dry_run_open_orders[id].status = "open"

(***************************************************************************)
(* Live order requests                                                     *)
(***************************************************************************)
NextPlace ==
    \/ PlaceCall
    \/ PrepAttempt
    \/ PlaceAttempt
    \/ PlaceEnd

SpecPlace == Init /\ [][NextPlace]_vars

Count(seq, x) == Cardinality({i \in 1..Len(seq) : seq[i] = x})

\* C11: one call of create_order or create_stoploss sends at most one
\* create_order request to the venue, whatever the venue answers: the adapter
\* never retries an order placement.
C11_PlacementNotRetried ==
    pop.op \in {"create_order", "create_stoploss"}
        => Count(requests, "create_order") <= 1

\* a create_stoploss call whose single order request the venue answered with
\* a retryable error, raised to the caller
C11_Witness ==
    /\ pop.op = "create_stoploss"
    /\ ppc = "raised"
    /\ perr = "TemporaryError"
    /\ Count(requests, "create_order") = 1

\* the public operations with an error surface: the live order requests and
\* the stake-amount limits
NextErrors ==
    \/ PlaceCall
    \/ PrepAttempt
    \/ PlaceAttempt
    \/ StakeAmountLimit
    \/ PlaceEnd

SpecErrors == Init /\ [][NextErrors]_vars

\* the error kinds of the taxonomy, by their class names
ErrorTaxonomy ==
    {"DDosProtection", "TemporaryError", "RetryableOrderError",
     "InvalidOrderException", "InsufficientFundsError", "PricingError",
     "ExchangeError", "ConfigurationError", "OperationalException"}

\* C22: every error that escapes a public operation of the adapter is one of
\* the kinds of the error taxonomy.
C22_OnlyTaxonomyEscapes == ppc = "raised" => perr \in ErrorTaxonomy

NextFetchOrder ==
    \/ FetchOrderCall
    \/ FetchOpenOrder
    \/ FetchClosedOrder
    \/ FetchOrderEnd

SpecFetchOrder == Init /\ [][NextFetchOrder]_vars

\* C23: on a venue without a unified fetch_order, fetch_order queries the open
\* order first and queries the closed order only after the open-order query
\* answered OrderNotFound; OrderNotFound from both queries is raised as
\* RetryableOrderError.
C23_OpenThenClosed ==
    pop.op = "fetch_order" =>
        /\ requests # <<>> => requests[1] = "fetch_open_order"
        /\ \A i \in 1..Len(requests) :
              requests[i] = "fetch_closed_order"
                  => /\ i > 1
                     /\ requests[i - 1] = "fetch_open_order"
                     /\ answers[i - 1] = "OrderNotFound"
        /\ \A i \in 1..Len(requests) :
              (requests[i] = "fetch_open_order" /\ i > 1)
                  => answers[i - 1] # "ok"
        /\ (/\ ppc = "raised"
            /\ Len(requests) >= 2
            /\ requests[Len(requests)] = "fetch_closed_order"
            /\ answers[Len(requests)] = "OrderNotFound")
              => perr = "RetryableOrderError"

\* both queries answered OrderNotFound in every attempt the retrier made, and
\* fetch_order raised RetryableOrderError
C23_Witness ==
    /\ pop.op = "fetch_order" /\ ppc = "raised" /\ perr = "RetryableOrderError"
    /\ Len(requests) = 2 * (FetchOrderRetries + 1)
    /\ \A i \in 1..Len(answers) : answers[i] = "OrderNotFound"

(***************************************************************************)
(* The rate cache                                                          *)
(***************************************************************************)
NextRate ==
    \/ \E t \in Threads : RateCall(t)
    \/ \E t \in Threads : RateEnter(t)
    \/ \E t \in Threads : RateRead(t)
    \/ \E t \in Threads : RateFetch(t)
    \/ \E t \in Threads : RateWrite(t)
    \/ \E t \in Threads : RateReturn(t)
    \/ TickerChange
    \/ RateExpire

SpecRate == Init /\ [][NextRate]_vars

\* the calls that returned a rate
RatesReturned ==
    {t \in Threads : rpc[t] = "done" /\ rcall[t].err = "none"}

\* C21: with concurrent callers of get_rate for the same pair and side, every
\* call returns either the value that was in the rate cache (refresh not
\* requested, an unexpired entry read) or a value freshly computed from the
\* venue's ticker, and every read and write of the rate cache happens while
\* the caller holds the cache mutex.
C21_CachedOrFreshUnderLock ==
    /\ ~unguarded
    /\ \A t \in Threads : rpc[t] \in {"read", "write"} => cache_lock = t
    /\ \A t \in RatesReturned :
          \/ /\ ~rcall[t].refresh
             /\ rcall[t].read # 0
             /\ rcall[t].result = rcall[t].read
          \/ /\ rcall[t].fresh # 0
             /\ rcall[t].result = rcall[t].fresh
             /\ rcall[t].fresh =
                    get_rate_from_ticker(rcall[t].ticker, rcall[t].balance)

\* one caller returned the cached value while another, which found the cache
\* empty, waits to write its fresh and different value
C21_Witness ==
    \E t, u \in Threads :
        /\ t # u
        /\ t \in RatesReturned
        /\ rcall[t].result = rcall[t].read /\ rcall[t].fresh = 0
        /\ rpc[u] = "enter_write"
        /\ rcall[u].fresh # rcall[t].result

CrossedByMoreThan1Pct(side, limit) ==
    IF side = "buy"
    THEN book.asks # <<>> /\ limit * 99 > book.asks[1][1] * 100
    ELSE book.bids # <<>> /\ limit * 101 < book.bids[1][1] * 100

\* C27: on a venue with an order book, an order placed with type limit is
\* stored with type market exactly when its rate crosses the opposite top of
\* the book by more than 1% at placement time, and no later step changes the
\* type of a stored order.
C27_ConvertedIffCrossedMoreThan1Pct ==
    [][\A id \in DOMAIN dry_run_open_orders' :
          IF id \in DOMAIN dry_run_open_orders
          THEN dry_run_open_orders'[id].type = dry_run_open_orders[id].type
          ELSE (has_l2_order_book /\ created'[id].ordertype = "limit")
               => (dry_run_open_orders'[id].type = "market"
                   <=> CrossedByMoreThan1Pct(dry_run_open_orders'[id].side,
                                             dry_run_open_orders'[id].price))]_vars

(***************************************************************************)
(* create_stoploss, dry-run or live, called with every stop price, side    *)
(* and limit ratio.                                                        *)
(***************************************************************************)
InitStoploss ==
    /\ InitOhlcv /\ InitLoop /\ InitTrades /\ InitDryAny /\ InitPlace
    /\ InitRate /\ InitOrd /\ InitFord /\ InitProbe
    /\ sl \in {NoStoploss(dry_run) : dry_run \in BOOLEAN}
    /\ canceled = {}
    /\ fillp = NoFill
    /\ levq = NoLeverageCall

NextStoploss ==
    \/ StoplossCall
    \/ PrepAttempt
    \/ PlaceAttempt
    \/ PlaceEnd

SpecStoploss == InitStoploss /\ [][NextStoploss]_vars

NextCancel ==
    \/ CreateDryRunOrder
    \/ CreateStoploss
    \/ FetchDryRunOrder
    \/ CancelOrder
    \/ BookChange

SpecCancel == InitDrySpec /\ [][NextCancel]_vars

\* C25: an order cancel_order has returned has status canceled, filled 0 and
\* remaining = amount, and every later fetch_dry_run_order of its id returns
\* it with these values.
C25_CanceledStaysCanceled ==
    \A id \in canceled :
       /\ dry_run_open_orders[id].status = "canceled"
       /\ dry_run_open_orders[id].filled = 0
       /\ dry_run_open_orders[id].remaining = dry_run_open_orders[id].amount

(***************************************************************************)
(* get_dry_market_fill_price applied to every side, amount, rate and book. *)
(***************************************************************************)
NextFillPrice == FillPriceCall

SpecFillPrice == InitDrySpec /\ [][NextFillPrice]_vars

\* price * volume summed over the levels until the amount is consumed
RECURSIVE SumUntilConsumed(_, _)
SumUntilConsumed(entries, amount) ==
    IF entries = <<>> \/ amount <= 0 THEN 0
    ELSE Head(entries)[1] * Min(Head(entries)[2], amount)
         + SumUntilConsumed(Tail(entries), amount - Head(entries)[2])

RECURSIVE VolumeOf(_)
VolumeOf(entries) ==
    IF entries = <<>> THEN 0 ELSE Head(entries)[2] + VolumeOf(Tail(entries))

\* C28: on a venue with an order book whose opposite side holds the amount,
\* get_dry_market_fill_price returns, to the price precision, the summed
\* price * volume divided by the amount, clamped to rate * 1.05 from above
\* for a buy and to rate * 0.95 from below for a sell, and never a value
\* beyond that clamp; for the asks [(10,1),(11,2),(12,5)] and a buy of 3 the
\* unclamped value is (10*1 + 11*2)/3.
C28_FillPriceIsClampedAverage ==
    LET entries == IF fillp.side = "buy" THEN fillp.orderbook.asks
                   ELSE fillp.orderbook.bids
        \* all values times 100 * amount
        returned == fillp.ret * 100 * fillp.amount
        average == SumUntilConsumed(entries, fillp.amount) * 100
        clamp == IF fillp.side = "buy" THEN fillp.rate * 105 * fillp.amount
                 ELSE fillp.rate * 95 * fillp.amount
        clamped == IF fillp.side = "buy" THEN Min(average, clamp)
                   ELSE Max(average, clamp)
        half_step == (PriceStep * 100 * fillp.amount) \div 2
    IN  (fillp.called /\ has_l2_order_book /\ VolumeOf(entries) >= fillp.amount)
        => /\ returned - clamped <= half_step
           /\ clamped - returned <= half_step
           /\ IF fillp.side = "buy" THEN returned <= clamp ELSE returned >= clamp
           /\ (fillp.side = "buy" /\ fillp.amount = 3 /\ fillp.rate = 6600
               /\ fillp.orderbook = LadderBook)
              => fillp.ret * 3 = 6000 * 1 + 6600 * 2

(***************************************************************************)
(* get_max_leverage applied to every trading mode, tier list and stake.    *)
(***************************************************************************)
NextLeverage == GetMaxLeverage

SpecLeverage == Init /\ [][NextLeverage]_vars

\* the stake range of tier i: [min_notional / prior tier's max_leverage,
\* max_notional / this tier's max_leverage]
StakeInRange(tiers, i, stake) ==
    /\ tiers[i].minNotional
         <= stake * (IF i = 1 THEN tiers[1].maxLeverage ELSE tiers[i - 1].maxLeverage)
    /\ stake * tiers[i].maxLeverage <= tiers[i].maxNotional

\* a futures call with a stake above 0 for a pair that has tiers
TieredCalls ==
    /\ levq.called /\ levq.trading_mode = "futures"
    /\ levq.pair_tiers # NoTiers /\ levq.stake_amount > 0

\* the general rule of C29: the first tier whose stake range contains the
\* stake gives the result, a stake above the last range raises
\* InvalidOrderException, stake 0 gives the first tier's leverage
FirstTierRule ==
    /\ TieredCalls
       => LET tiers == levq.pair_tiers
              hits == {i \in 1..Len(tiers) : StakeInRange(tiers, i, levq.stake_amount)}
          IN  IF hits # {}
              THEN levq.out = Returned(tiers[CHOOSE i \in hits :
                                               \A j \in hits : i <= j].maxLeverage)
              ELSE levq.out = Raised("InvalidOrderException")
    /\ (levq.called /\ levq.trading_mode = "futures" /\ levq.pair_tiers = ThreeTiers)
       => /\ levq.stake_amount = 12 => levq.out = Returned(20)
          /\ levq.stake_amount = 4000 => levq.out = Raised("InvalidOrderException")
          /\ levq.stake_amount = 0 => levq.out = Returned(50)

\* C29 as stated: the rule, and leverage 50 for stake 2k (4 units)
C29_FirstTierContainingStake ==
    /\ FirstTierRule
    /\ (levq.called /\ levq.trading_mode = "futures" /\ levq.pair_tiers = ThreeTiers
        /\ levq.stake_amount = 4)
       => levq.out = Returned(50)

\* C29 (amended): get_max_leverage returns the max_leverage of the first
\* tier whose stake range [min_notional / prior tier max_leverage,
\* max_notional / this tier max_leverage] contains the stake; for the tiers
\* [(0,50k,50), (50k,250k,20), (250k,1M,10)] the ranges are [0, 1k],
\* [1k, 12.5k] and [12.5k, 100k], so it returns 20 for stake 2k as for stake
\* 6k and 50 for stakes up to 1k, raises InvalidOrderException for stake 2M
\* and returns the first tier's leverage for stake 0.
C29_FirstTierContainingStakeAmended ==
    /\ FirstTierRule
    /\ (levq.called /\ levq.trading_mode = "futures" /\ levq.pair_tiers = ThreeTiers)
       => /\ levq.stake_amount = 4 => levq.out = Returned(20)
          /\ levq.stake_amount \in 1..2 => levq.out = Returned(50)

C29_Witness ==
    /\ levq.called /\ levq.trading_mode = "futures"
    /\ levq.pair_tiers = ThreeTiers /\ levq.stake_amount = 4
    /\ levq.out = Returned(20)

(***************************************************************************)
(* fetch_orders called again and again while the clock runs.               *)
(***************************************************************************)
NextFetchOrders ==
    \/ FetchOrdersCall
    \/ FetchOrdersWindow
    \/ FetchOrdersReturn
    \/ FetchOrdersSingle
    \/ FetchOrdersEnd
    \/ FetchOrdersTick

SpecFetchOrders == Init /\ [][NextFetchOrders]_vars

\* a call with fetch_orders_limit_minutes set, outside dry-run mode
WindowedCalls == fo.pc # "idle" /\ ~fo.dry_run /\ fo.limit # NoLimit

\* C30: with fetch_orders_limit_minutes set, the k-th window starts at
\* since + (k - 1) * (limit - 1) and is pulled while that start lies before
\* now; the call returns only when the next start has reached now, and the
\* list it returns holds every order id pulled, each once.
C30_WindowsAdvanceIdsOnce ==
    WindowedCalls
    => /\ \A k \in 1..Len(fo.starts) :
             /\ fo.starts[k].since = fo.since0 + (k - 1) * (fo.limit - 1)
             /\ fo.starts[k].since < fo.starts[k].at
       /\ fo.since = fo.since0 + Len(fo.starts) * (fo.limit - 1)
       /\ fo.pc = "returned"
          => /\ fo.since >= fo.ret_at
             /\ \A i, j \in 1..Len(fo.ret) :
                   fo.ret[i].id = fo.ret[j].id => i = j
             /\ {fo.ret[i].id : i \in 1..Len(fo.ret)}
                  = {fo.orders[i].id : i \in 1..Len(fo.orders)}

C30_Witness ==
    /\ WindowedCalls /\ fo.pc = "returned"
    /\ Len(fo.starts) >= 2
    /\ \E i, j \in 1..Len(fo.orders) : i # j /\ fo.orders[i].id = fo.orders[j].id
    /\ Len(fo.ret) >= 3

(***************************************************************************)
(* validate_required_startup_candles applied to every configuration.       *)
(***************************************************************************)
NextStartup == ValidateRequiredStartupCandles

SpecStartup == Init /\ [][NextStartup]_vars

InitMarketsSpec ==
    /\ InitOhlcv /\ InitLoop /\ InitTrades /\ InitDry /\ InitPlace
    /\ InitRate /\ InitOrd /\ InitSeen /\ InitFord
    /\ vsc = NoStartupCheck
    /\ InitMarkets
    /\ InitPure

NextMarkets ==
    \/ ReloadMarketsCall
    \/ LoadAsyncMarkets
    \/ AssignMarkets
    \/ SetApiMarkets
    \/ LoadTradingFees
    \/ FillLeverageTiers
    \/ ReloadMarketsEnd
    \/ MarketClockTick
    \/ VenueMarketsChange

SpecMarkets == InitMarketsSpec /\ [][NextMarkets]_vars

\* C32: the table readers see is always no table or one complete version of
\* the venue's table; a reload that ended in its except clause has left the
\* table and _last_markets_refresh as they were when it was called, and no
\* later call returns early after it.
C32_FailedReloadLeavesTableAndRetries ==
    /\ mk.markets \in 0..MaxMarketVersion
    /\ mk.outcome = "failed"
       => /\ mk.markets = mk.old_markets
          /\ mk.last_markets_refresh = mk.old_refresh
    /\ ~mk.skipped_after_failure

(***************************************************************************)
(* Stake limits of a pair                                                  *)
(***************************************************************************)
NextStake == GetPairStakeAmounts
SpecStake == Init /\ [][NextStake]_vars

\* C33: whenever the minimum and the maximum stake of a pair are both defined
\* for the same price and leverage, the minimum is not above the maximum.
C33_MinStakeAtMostMaxStake ==
    (stk.called /\ stk.min # NoneLimit /\ stk.max # Infinite)
        => stk.min <= stk.max

(***************************************************************************)
(* The liquidation buffer                                                  *)
(***************************************************************************)
NextLiquidation == GetLiquidationPrice
SpecLiquidation == Init /\ [][NextLiquidation]_vars

BufferAmount ==
    (AbsDiff(liq.open_rate, liq.liquidation_price) * liq.liquidation_buffer)
        \div 100

\* C34: the returned liquidation price is the venue's or the estimated one moved
\* away from zero by |open_rate - liq| * liquidation_buffer, for long and short.
C34_BufferShiftsAwayFromZero ==
    liq.outcome = "returned"
        => liq.returned = liq.liquidation_price + BufferAmount

\* C34, as the code has it: the buffer is added for a long position and
\* subtracted for a short one (towards zero), and the result is never below 0.
C34_BufferUpForLongDownForShort ==
    liq.outcome = "returned"
        => /\ ~liq.is_short => liq.returned = liq.liquidation_price + BufferAmount
           /\ liq.is_short
                => liq.returned = Max(liq.liquidation_price - BufferAmount, 0)
           /\ liq.returned >= 0

C34_Witness ==
    /\ liq.outcome = "returned" /\ liq.is_short
    /\ BufferAmount > 0
    /\ liq.returned = liq.liquidation_price - BufferAmount
    /\ liq.returned < liq.liquidation_price

(***************************************************************************)
(* The price side of get_rate                                              *)
(***************************************************************************)
NextPriceSide == GetRateRefresh
SpecPriceSide == Init /\ [][NextPriceSide]_vars

PickedFor(side, is_short, price_side, picked) ==
    (psd.side = side /\ psd.is_short = is_short /\ psd.price_side = price_side)
        => psd.picked = picked

\* the rate comes from the picked side: the top of the book, or the ticker's
\* price of that side when price_last_balance is 0
RateFromPickedSide ==
    /\ psd.use_order_book
         => psd.rate = (IF psd.picked = "bid" THEN SideOrderBook.bids[1][1]
                        ELSE SideOrderBook.asks[1][1])
    /\ (~psd.use_order_book /\ psd.balance = 0)
         => psd.rate = (IF psd.picked = "bid" THEN psd.ticker.bid
                        ELSE psd.ticker.ask)

\* C35: get_rate picks the price side by intent, direction and policy:
\* entry/long same->bid other->ask; entry/short same->ask other->bid;
\* exit/long same->ask other->bid; exit/short same->bid other->ask; a
\* configured bid or ask is used unchanged.
C35_PriceSideTable ==
    psd.called
        => /\ PickedFor("entry", FALSE, "same", "bid")
           /\ PickedFor("entry", FALSE, "other", "ask")
           /\ PickedFor("entry", TRUE, "same", "ask")
           /\ PickedFor("entry", TRUE, "other", "bid")
           /\ PickedFor("exit", FALSE, "same", "ask")
           /\ PickedFor("exit", FALSE, "other", "bid")
           /\ PickedFor("exit", TRUE, "same", "bid")
           /\ PickedFor("exit", TRUE, "other", "ask")
           /\ psd.price_side \in {"bid", "ask"} => psd.picked = psd.price_side
           /\ RateFromPickedSide

C35_Witness ==
    /\ psd.called /\ psd.side = "exit" /\ psd.is_short /\ psd.price_side = "other"
    /\ psd.picked = "ask" /\ ~psd.use_order_book /\ psd.balance = 0
    /\ psd.rate = psd.ticker.ask

(***************************************************************************)
(* The open-orders map of the simulator under create, poll and cancel      *)
(***************************************************************************)
DryStatuses == {"open", "closed", "canceled"}

C37_ClosedStaysClosed ==
    [][\A id \in DOMAIN dry_run_open_orders :
          dry_run_open_orders[id].status = "closed"
              => /\ id \in DOMAIN dry_run_open_orders'
                 /\ dry_run_open_orders'[id].status = "closed"
                 /\ dry_run_open_orders'[id].filled = dry_run_open_orders[id].filled
                 /\ dry_run_open_orders'[id].fee = dry_run_open_orders[id].fee]_vars

(***************************************************************************)
(* The expiring candle cache                                               *)
(***************************************************************************)
NextOwc == RefreshOhlcvWithCache \/ OwcTick
SpecOwc == Init /\ [][NextOwc]_vars

\* C38: the table refresh_ohlcv_with_cache returns has an entry for every
\* requested key whose data is available, whether the key hit the cache or was
\* downloaded in this call.
C38_CacheHitsKeptInResult ==
    owc.called
        => \A k \in owc.pairs :
              (k \in owc.hits \/ k \in owc.available) => k \in DOMAIN owc.result

(***************************************************************************)
(* Termination of the time-based pagination.  The event loop runs the      *)
(* coroutine until it completes, so an iteration that can run does run.    *)
(***************************************************************************)
NextTimePull == TimeHistoryCall \/ TimeLoopPage \/ TimeHistoryReturn
SpecTimePull ==
    Init /\ [][NextTimePull]_vars /\ WF_vars(TimeLoopPage)
         /\ WF_vars(TimeHistoryReturn)

\* C39: on a venue with finitely many trades a pull that is not cancelled
\* ends, also when the last page holds several trades of one timestamp and
\* until is not exceeded.
C39_TimePaginationTerminates == (tp.pc = "loop") ~> (tp.pc = "done")

\* a pull that holds more than MaxKept trades fetches the same page with the
\* same since again and again
TimePullRepeatsPage ==
    (tp.pc = "loop" /\ Len(tp.trades) > MaxKept)
        => /\ Len(tp.page) > 1
           /\ tp.page = venue_fetch_trades(tp.venue, tp.since)
           /\ tp.page[Len(tp.page)].ts = tp.since

(***************************************************************************)
(* Progress of the window loop of fetch_orders                             *)
(***************************************************************************)
\* C40: for every fetch_orders_limit_minutes >= 1 and every since in the
\* past, each turn of the window loop moves the window start strictly
\* forward, so that the loop reaches now and ends.
C40_WindowStartAdvances ==
    [][(fo.pc = "loop" /\ fo'.pc = "loop"
          /\ Len(fo'.starts) = Len(fo.starts) + 1)
        => fo'.since > fo.since]_vars

====
